---- MODULE Spec2Model ----
(***************************************************************************)
(* A model of the train detection gateway (train_detector_stable.py and    *)
(* witmotion_device_stable.py).                                            *)
(*                                                                         *)
(* The specifications of the module:                                       *)
(*   SpecDet    the detector: sample callbacks, trigger, stop conditions,  *)
(*              the end-of-recording tasks, the save lock, shutdown and    *)
(*              the commit of a calibration.  Wall-clock time is the       *)
(*              variable `now`; accelerations are integers in milli-g.     *)
(*   FairSpecDet  SpecDet with the fairness of the asyncio event loop:     *)
(*              every created task and every resumed coroutine runs.       *)
(*   SpecFleet  the coordinator in real time: the serial connects of       *)
(*              start, the health loop of run with its throttles, and      *)
(*              DeviceModel.connect and _cleanup step by step.  Time is    *)
(*              counted in seconds, as the ages of the instants the code   *)
(*              stores.  No signal arrives and the detector is left out.   *)
(*   FairSpecFleet  SpecFleet where time passes and the coroutine runs.    *)
(*   SpecSave   _save_event_data_sync, file by file, and its database row. *)
(*   SpecRx     the receive path: notifications, the byte queue and the    *)
(*              framing of process_data_queue.                             *)
(*   SpecDec    _process_data on chosen payloads.                          *)
(*   SpecBuf    CircularBuffer (train_detector_pro.py).                    *)
(*   SpecUp     the event and the health uploader, request by request.     *)
(*   SpecLink   one DeviceModel from connect to the end of _cleanup, from  *)
(*              one await to the next.                                     *)
(*   SpecRxFrames  the receive path on a stream of two frames.             *)
(*   SpecOs     the rounds of run with _os_level_ble_cleanup, command by   *)
(*              command.                                                   *)
(*   SpecMgr    IMUManager.connect and check_and_reconnect under calls     *)
(*              that overlap, with the connection lock.                    *)
(*   SpecWin    the sliding health window of a DeviceModel, second by      *)
(*              second.                                                    *)
(*   SpecPoll   the window fed by the polls of check_and_reconnect only.   *)
(*   SpecCal    _perform_calibration: its vibration check, its commit and  *)
(*              the time of the next attempt.                              *)
(*                                                                         *)
(* asyncio is cooperative: the code between two awaits is one step, so     *)
(* every action below is the code from one suspension point to the next.   *)
(***************************************************************************)
EXTENDS Integers, Sequences, FiniteSets, TLC

(***************************************************************************)
(* Bounds of the model.                                                    *)
(***************************************************************************)
NumDevices == 2        \* size of the fleet (config 'devices')
BufferMaxlen == 1      \* IMUManager.buffer = deque(maxlen=250), scaled down
stop_window_size == 2  \* STOP_WINDOW_SIZE = 50, scaled down
MaxTicks == 1          \* number of clock advances in a run
MaxFrames == 5         \* number of frames parsed in a run
MaxEndTasks == 2       \* _end_recording tasks created and not yet run
MaxReconnects == 1     \* reconnections started by the health loop in a run
max_consecutive_failures == 1   \* MAX_CONSECUTIVE_FAILURES (configured; default 3)
QueueMaxsize == 2      \* asyncio.Queue(maxsize=100), scaled down
MaxGarbage == 2        \* bytes a stream holds before its frame
MaxDropped == 1        \* slices a stream loses to a full queue
MaxUploads == 3        \* requests an uploader sends in a run
MaxAdds == 4           \* items added to a CircularBuffer between two clears
MaxSessions == 2       \* calls of DeviceModel.connect in a run of SpecLink
MaxParsed == 3         \* slices its consumer parses in a run
MaxOsRuns == 2         \* OS-level recoveries in a run of SpecOs
MaxOsChecks == 3       \* health checks in a run of SpecOs
MaxCalls == 4          \* calls of connect and check_and_reconnect in a run of SpecMgr
sliding_window_size == 10 \* health_config 'sliding_window_size' = 50, scaled down
MaxCalTicks == 5       \* advances of the clock in a run of SpecCal

(***************************************************************************)
(* Program constants: accelerations in milli-g, times in seconds.          *)
(***************************************************************************)
threshold == 2000            \* self.threshold, 2.0 g
stop_threshold_z == 500      \* STOP_THRESHOLD_Z, 0.5 g
max_record_seconds == 60     \* MAX_RECORD_SECONDS
data_timeout == 3                \* DATA_TIMEOUT, seconds
health_check_interval == 2       \* HEALTH_CHECK_INTERVAL and run's own
reconnect_global_cooldown == 5   \* self.reconnect_global_cooldown
reconnect_delay == 2             \* asyncio.sleep(2.0) of check_and_reconnect
first_data_timeout == 5          \* DeviceModel.FIRST_DATA_TIMEOUT, seconds
start_pause == 1                 \* asyncio.sleep(1.0) of start
trigger_percentage == 70         \* health_config 'trigger_percentage', percent
window_horizon == 1              \* the checks of the last 1.0 s count, seconds
calibration_interval == 21600    \* calibration_interval_hours * 3600, seconds
retry_delay == 300               \* a rejected calibration is retried after 5 minutes
calibration_vibration_threshold == 300  \* CALIBRATION_VIBRATION_THRESHOLD, 0.3 g
min_check_samples == 10          \* fewer check samples reject the calibration
FrameLen == 20                   \* a frame: two header bytes and 18 of payload
Header1 == 85                    \* 0x55
Header2 == 97                    \* 0x61

Devices == 1 .. NumDevices
None == "None"      \* the state of a manager that holds no DeviceModel

\* The inputs: decoded samples (AccX, AccY, AccZ) and calibration results.
SampleQuiet == [AccX |-> 0, AccY |-> 0, AccZ |-> 0]
SampleLoudZ == [AccX |-> 0, AccY |-> 0, AccZ |-> -2001]
SampleLoudXY == [AccX |-> 3000, AccY |-> 3000, AccZ |-> 2000]
Samples == {SampleQuiet, SampleLoudZ, SampleLoudXY}
BiasValues == {0, -1000}
\* The clock is read at multiples of the recording cap.
TickStep == max_record_seconds

VARIABLES
    \* TrainDetector
    running, recording, trigger_time, trigger_device, event_id, event_data,
    z_stop_windows, z_axis_offset, cal_pc, cal_keys,
    save_lock, end_tasks, save_args, event_dirs, shutdown_pc, sd_last,
    main_pc, start_idx,
    \* how many of the tasks not yet run were created in an earlier session
    \* than the current one (they are the oldest), read by the properties
    stale_tasks,
    \* IMUManager / DeviceModel, one per device
    is_ready, dm_state, data_task, first_data_received, buffer, current_data,
    reconnecting,
    \* the environment: the wall clock and the number of frames so far
    now, ticks, frames, reconnects,
    \* history of the current session, read only by the properties
    delivered, preroll,
    \* the coordinator in real time (SpecFleet): the device the main
    \* coroutine works on, the index of the health loop, the time left of the
    \* wait in progress, and the ages in seconds of the times the code stores
    cur, hl_idx, sleep_left, last_data_age, last_reconnect_age,
    time_since_last_reconnect, current_time_age, last_health_check_age,
    imu_health_check_age,
    \* the age of the last start of a reconnection, read by the properties
    attempt_age,
    consecutive_failures,       \* consecutive_failures of the DeviceModel of each device
    failure_streak,             \* failed connect attempts of each device in a row
    connected_age,              \* the age of the last successful return of a connect
    save_pc,                    \* where _save_event_data_sync is
    event_data_copy,            \* its argument: the samples of each device
    dev_num,                    \* the device its loop is at
    saved_files,                \* its list saved_files
    event_dir,                  \* the event directory exists
    csv_files,                  \* the devices whose device_<N>.csv exists
    csv_rows,                   \* the data rows of each device_<N>.csv
    metadata_json,              \* metadata.json, <<>> while it does not exist
    events_rows,                \* the rows of table events with the event_id of the call
    shutdown_again,             \* a second call of shutdown: "none", "returned", "acted"
    stream,                     \* the bytes a device sends after its link is up
    sent,                       \* how many of them have been notified
    slices_in,                  \* the calls of _on_data_received so far
    dropped,                    \* the slices removed from a full queue
    raw_data_queue,             \* DeviceModel.raw_data_queue
    TempBytes,                  \* DeviceModel.TempBytes
    samples,                    \* the payloads passed to _process_data, decoded
    max_size,                   \* CircularBuffer.max_size, 0 before __init__
    cb_buffer,                  \* CircularBuffer.buffer
    cb_added,                   \* the items added since __init__ or clear
    cb_returned,                \* the list the last get_all has returned
    cb_expected,                \* what the buffer held when it returned it
    uploader,                   \* the EventUploader and the HealthUploader
    upload_due,                 \* HealthUploader: the interval has elapsed
    link_state,                 \* DeviceModel.state of the device of SpecLink
    link_task,                  \* its data_task: "none", "running", "cancelling", "done"
    client_connected,           \* its client.is_connected
    notify_on,                  \* its notifications are subscribed
    cleanup_pc,                 \* where its _cleanup is
    queued,                     \* the slices in its raw_data_queue
    parsed,                     \* the slices its consumer has parsed
    link_closed,                \* _cleanup has disconnected the link of the last connect
    link_first_data,            \* its first_data_received
    sessions,                   \* the calls of connect so far
    os_pc,                      \* where the coordinator is: the run loop or a wait of the OS-level recovery
    ble_operations_paused,      \* TrainDetector.ble_operations_paused
    os_success,                 \* success of the recovery in progress
    soft_outcome,               \* how bluetoothctl remove ended in the last recovery, "none" before
    hard_attempted,             \* hciconfig reset was run in the last recovery
    global_cooldown,            \* os_cleanup_global_cooldown has not passed since last_os_cleanup_global
    mac_cooldown,               \* OS_CLEANUP_COOLDOWN has not passed since os_cleanup_history[mac]
    os_runs,                    \* the recoveries that have paused the fleet so far
    os_checks,                  \* the health checks the coordinator has started so far
    os_connects,                \* the connects it has started after a recovery
    connection_lock,            \* IMUManager._connection_lock of the supervisor of SpecMgr: 0 when free, else the task that holds it
    mgr_reconnecting,           \* its reconnecting
    mgr_is_ready,               \* its is_ready
    mgr_device,                 \* its device is not None
    devices_made,               \* the DeviceModels it has created so far
    call_pc,                    \* where the call of each task is, "idle" outside a call
    mgr_calls,                  \* the calls of connect and check_and_reconnect so far
    mgr_rejects,                \* those that returned at once because of the lock or the flag
    health_window,              \* DeviceModel.health_window, oldest first: the age in seconds and the result of each check
    since_poll,                 \* the age of IMUManager.last_health_check, up to health_check_interval
    win_fresh,                  \* check_sliding_window_health has run on the window as it is
    window_healthy,             \* what it has returned
    poll_is_healthy,            \* is_healthy of the last poll of check_and_reconnect
    cal_now,                    \* the wall clock of SpecCal, seconds
    cal_ticks,                  \* how often it has advanced
    last_calibration_time,      \* TrainDetector.last_calibration_time, 0 before the first run
    cal_run,                    \* where _perform_calibration is: "idle", "check", "collect"
    cal_current_time,           \* its current_time: when the run started
    cal_offset,                 \* z_axis_offset of each device, milli-g
    cal_window,                 \* the length of z_stop_windows of each device
    cal_rejected                \* the last run that returned was rejected

detVars == <<running, recording, trigger_time, trigger_device, event_id,
             event_data, z_stop_windows, z_axis_offset, cal_pc, cal_keys,
             save_lock, end_tasks, stale_tasks, save_args, event_dirs, shutdown_pc,
             sd_last, main_pc, start_idx, shutdown_again>>
supVars == <<is_ready, dm_state, data_task, first_data_received, buffer,
             current_data, reconnecting>>
envVars == <<now, ticks, frames, reconnects>>
histVars == <<delivered, preroll>>
fleetVars == <<cur, hl_idx, sleep_left, last_data_age, last_reconnect_age,
               time_since_last_reconnect, current_time_age,
               last_health_check_age, imu_health_check_age, attempt_age,
               consecutive_failures, failure_streak, connected_age>>
saveVars == <<save_pc, event_data_copy, dev_num, saved_files, event_dir,
              csv_files, csv_rows, metadata_json, events_rows>>
rxVars == <<stream, sent, slices_in, dropped, raw_data_queue, TempBytes,
            samples>>
bufVars == <<max_size, cb_buffer, cb_added, cb_returned, cb_expected>>
upVars == <<uploader, upload_due>>
linkVars == <<link_state, link_task, client_connected, notify_on, cleanup_pc,
              queued, parsed, link_closed, link_first_data, sessions>>
osVars == <<os_pc, ble_operations_paused, os_success, soft_outcome,
            hard_attempted, global_cooldown, mac_cooldown, os_runs,
            os_checks, os_connects>>
mgrVars == <<connection_lock, mgr_reconnecting, mgr_is_ready, mgr_device,
             devices_made, call_pc, mgr_calls, mgr_rejects>>
winVars == <<health_window, since_poll, win_fresh, window_healthy,
             poll_is_healthy>>
calVars == <<cal_now, cal_ticks, last_calibration_time, cal_run,
             cal_current_time, cal_offset, cal_window, cal_rejected>>
partVars == <<bufVars, upVars, linkVars, osVars, mgrVars, winVars, calVars>>
vars == <<detVars, supVars, envVars, histVars, fleetVars, saveVars, rxVars,
          partVars>>

Abs(x) == IF x < 0 THEN -x ELSE x

RECURSIVE SeqMax(_)
SeqMax(s) == IF Len(s) = 1 THEN s[1]
             ELSE LET m == SeqMax(Tail(s)) IN IF s[1] > m THEN s[1] ELSE m

\* deque(maxlen=n).append(x): the oldest entry is dropped when full.
DequeAppendDropNewest(q, x, n) == IF Len(q) < n THEN Append(q, x) ELSE q
DequeAppend(q, x, n) == IF Len(q) < n THEN Append(q, x)
                        ELSE Append(Tail(q), x)

NoData == [n \in Devices |-> <<>>]

\* self.calibrating: set on entry to _perform_calibration, cleared on exit.
calibrating == cal_pc # "idle"

(***************************************************************************)
(* The detector: TrainDetector._data_callback and what it calls.           *)
(*                                                                         *)
(* event_data, z_stop_windows and z_axis_offset are dicts in the code.     *)
(* A key of event_data always holds a non-empty list (it is created by the *)
(* append, or by a non-empty buffer copy), an absent stop window and an    *)
(* empty one make _check_stop_condition return False alike, and an absent  *)
(* offset reads as 0.0: so an absent key is modelled as <<>>, <<>> and 0.  *)
(* The stored samples carry no timestamp: a list is in arrival order.      *)
(***************************************************************************)

\* abs(acc_z): the calibrated Z axis alone, lines 1247-1254.
ZMagnitude(d, s) == Abs(s.AccZ - z_axis_offset[d])

\* if z_magnitude > self.threshold, line 1256.
OverThresholdInclusive(m) == m >= threshold
OverThreshold(m) == m > threshold

\* The event id: the trigger time, with a counter while the directory
\* exists on disk (lines 1351-1358).  <<t, 0>> is the id without a suffix.
NewEventId(t) ==
    LET k == CHOOSE k \in 0 .. Cardinality(event_dirs) :
                 /\ <<t, k>> \notin event_dirs
                 /\ \A j \in 0 .. k - 1 : <<t, j>> \in event_dirs
    IN  <<t, k>>

\* The buffers copied at a trigger, lines 1384-1388.
SnapshotAllDevices(buf) == [n \in Devices |-> buf[n]]
SnapshotBuffers(buf) ==
    [n \in Devices |-> IF is_ready[n] THEN buf[n] ELSE <<>>]

\* _trigger_detection after its guard, lines 1346-1389.  buf is the ring
\* buffers as _device_callback has just left them.
StartSession(d, buf) ==
    /\ recording' = TRUE
    /\ trigger_time' = now
    /\ trigger_device' = d
    /\ event_id' = NewEventId(now)
    /\ event_data' = SnapshotBuffers(buf)
    /\ z_stop_windows' = [n \in Devices |-> <<>>]

\* _trigger_detection, lines 1335-1389.
TriggerDetection(d, buf) ==
    IF recording
    THEN UNCHANGED <<recording, trigger_time, trigger_device, event_id,
                     event_data, z_stop_windows>>
    ELSE StartSession(d, buf)

\* _check_stop_condition on the windows w, lines 1289-1333.
CheckStopConditionFullWindow(w) ==
    /\ \E n \in Devices : is_ready[n]
    /\ \A n \in Devices : is_ready[n] =>
           /\ Len(w[n]) = stop_window_size
           /\ SeqMax(w[n]) < stop_threshold_z
CheckStopConditionAllDevices(w) ==
    /\ \A n \in Devices :
           /\ w[n] # <<>>
           /\ SeqMax(w[n]) < stop_threshold_z
    /\ \E n \in Devices : is_ready[n]
CheckStopCondition(w) ==
    /\ \E n \in Devices : w[n] # <<>>
    /\ \A n \in Devices : is_ready[n] =>
           /\ w[n] # <<>>
           /\ SeqMax(w[n]) < stop_threshold_z
    /\ \E n \in Devices : is_ready[n]

\* The stop decision of the recording branch, lines 1272-1287.
ShouldStop(w) ==
    \/ now - trigger_time >= max_record_seconds
    \/ CheckStopCondition(w)

\* _data_callback(device_number, timestamp, data), timestamp = now,
\* lines 1233-1287.  It has no await: one step.
DataCallbackUnguarded(d, s, buf) ==
    IF ~running
    THEN UNCHANGED <<recording, trigger_time, trigger_device, event_id,
                     event_data, z_stop_windows, end_tasks, stale_tasks>>
    ELSE IF OverThreshold(ZMagnitude(d, s))
    THEN StartSession(d, buf) /\ UNCHANGED end_tasks
                              /\ stale_tasks' = end_tasks
    ELSE IF recording
    THEN LET w == [z_stop_windows EXCEPT
                      ![d] = DequeAppend(@, ZMagnitude(d, s), stop_window_size)]
         IN  /\ event_data' = [event_data EXCEPT ![d] = Append(@, s)]
             /\ z_stop_windows' = w
             /\ end_tasks' = IF ShouldStop(w) THEN end_tasks + 1 ELSE end_tasks
             /\ UNCHANGED stale_tasks
             /\ UNCHANGED <<recording, trigger_time, trigger_device, event_id>>
    ELSE UNCHANGED <<recording, trigger_time, trigger_device, event_id,
                     event_data, z_stop_windows, end_tasks, stale_tasks>>
DataCallback(d, s, buf) ==
    IF ~running
    THEN UNCHANGED <<recording, trigger_time, trigger_device, event_id,
                     event_data, z_stop_windows, end_tasks, stale_tasks>>
    ELSE IF ~recording
    THEN IF OverThreshold(ZMagnitude(d, s))
         THEN TriggerDetection(d, buf) /\ UNCHANGED end_tasks
                                       /\ stale_tasks' = end_tasks
         ELSE UNCHANGED <<recording, trigger_time, trigger_device, event_id,
                          event_data, z_stop_windows, end_tasks, stale_tasks>>
    ELSE LET w == [z_stop_windows EXCEPT
                      ![d] = DequeAppend(@, ZMagnitude(d, s), stop_window_size)]
         IN  /\ event_data' = [event_data EXCEPT ![d] = Append(@, s)]
             /\ z_stop_windows' = w
             /\ end_tasks' = IF ShouldStop(w) THEN end_tasks + 1 ELSE end_tasks
             /\ UNCHANGED stale_tasks
             /\ UNCHANGED <<recording, trigger_time, trigger_device, event_id>>

\* What the properties remember of the session in progress: the snapshot
\* taken at the trigger, and every sample passed to _data_callback while
\* recording, with the value of `running` at that moment.
History(d, s) ==
    /\ preroll' = IF ~recording /\ recording' THEN event_data' ELSE preroll
    /\ delivered' =
          IF recording
          THEN [delivered EXCEPT ![d] = Append(@, [data |-> s, running |-> running])]
          ELSE IF recording' THEN NoData ELSE delivered

\* A frame of device d is parsed: process_data_queue -> _process_data ->
\* IMUManager._device_callback -> TrainDetector._data_callback
\* (witmotion_device_stable.py 356-366, train_detector_stable.py 171-184).
FrameParsed(d, s) ==
    /\ data_task[d]
    /\ frames < MaxFrames
    /\ end_tasks < MaxEndTasks
    /\ frames' = frames + 1
    /\ current_data' = [current_data EXCEPT ![d] = <<s>>]
    /\ buffer' = [buffer EXCEPT ![d] = DequeAppend(@, s, BufferMaxlen)]
    /\ first_data_received' = [first_data_received EXCEPT ![d] = TRUE]
    /\ DataCallback(d, s, buffer')
    /\ History(d, s)
    /\ UNCHANGED <<running, z_axis_offset, cal_pc, cal_keys, save_lock,
                   save_args, event_dirs, shutdown_pc, sd_last, main_pc,
                   start_idx, is_ready, dm_state, data_task, reconnecting,
                   now, ticks, reconnects>>
    /\ UNCHANGED <<fleetVars, saveVars, rxVars, partVars, shutdown_again>>

(***************************************************************************)
(* _end_recording, lines 1391-1495, and the writer it runs in the executor. *)
(* save_lock is who holds self._save_lock: "free", "task" (an              *)
(* _end_recording task created by the callback) or "shutdown".             *)
(* save_args holds the call of _save_event_data_sync in flight, if any:    *)
(* its `written` turns true when the executor thread has run it.           *)
(***************************************************************************)

\* event_data_copy, line 1413.
EventDataCopyAfterClear(data) == NoData
EventDataCopy(data) == [k \in Devices |-> data[k]]

\* The handoff without `self.recording = False` of line 1403.
HandoffKeepsRecording(owner) ==
    IF ~recording
    THEN UNCHANGED <<recording, event_data, save_args, save_lock, histVars>>
    ELSE /\ UNCHANGED recording
         /\ save_args' = <<[event_id |-> event_id,
                            trigger_device |-> trigger_device,
                            trigger_time |-> trigger_time,
                            data |-> [k \in Devices |-> event_data[k]],
                            written |-> FALSE]>>
         /\ event_data' = NoData
         /\ save_lock' = owner
         /\ delivered' = NoData
         /\ preroll' = NoData

\* Lines 1399-1429 with the lock held: the handoff to the writer.
Handoff(owner) ==
    IF ~recording
    THEN UNCHANGED <<recording, event_data, save_args, save_lock, histVars>>
    ELSE /\ recording' = FALSE
         /\ save_args' = <<[event_id |-> event_id,
                            trigger_device |-> trigger_device,
                            trigger_time |-> trigger_time,
                            data |-> EventDataCopy(event_data),
                            written |-> FALSE]>>
         /\ event_data' = NoData
         /\ save_lock' = owner
         /\ delivered' = NoData
         /\ preroll' = NoData

\* A task created by _data_callback enters _end_recording and gets the lock.
EndRecordingTask ==
    /\ end_tasks > 0
    /\ save_lock = "free"
    /\ end_tasks' = end_tasks - 1
    /\ stale_tasks' = IF stale_tasks > 0 THEN stale_tasks - 1 ELSE 0
    /\ Handoff("task")
    /\ UNCHANGED <<running, trigger_time, trigger_device, event_id,
                   z_stop_windows, z_axis_offset, cal_pc, cal_keys,
                   event_dirs, shutdown_pc, sd_last, main_pc, start_idx,
                   supVars, envVars>>
    /\ UNCHANGED <<fleetVars, saveVars, rxVars, partVars, shutdown_again>>

\* The executor thread runs _save_event_data_sync, lines 1497-1602: the
\* event directory exists afterwards.
SaveWrite ==
    /\ save_args # <<>>
    /\ ~save_args[1].written
    /\ save_args' = [save_args EXCEPT ![1].written = TRUE]
    /\ event_dirs' = event_dirs \cup {save_args[1].event_id}
    /\ UNCHANGED <<running, recording, trigger_time, trigger_device, event_id,
                   event_data, z_stop_windows, z_axis_offset, cal_pc, cal_keys,
                   save_lock, end_tasks, stale_tasks, shutdown_pc, sd_last, main_pc,
                   start_idx, supVars, envVars, histVars>>
    /\ UNCHANGED <<fleetVars, saveVars, rxVars, partVars, shutdown_again>>

\* The device shutdown disconnects next: `for number in sorted(...)` goes
\* on after device `last` to the lowest ready one, lines 1224-1228.  0 when
\* none is left.
NextReady(last) ==
    LET left == {n \in Devices : n > last /\ is_ready[n]}
    IN  IF left = {} THEN 0
        ELSE CHOOSE n \in left : \A m \in left : n <= m

\* IMUManager.disconnect, lines 161-169, with DeviceModel._cleanup: the
\* consumer task is cancelled, the device object dropped.
ManagerDisconnect(d) ==
    /\ is_ready' = [is_ready EXCEPT ![d] = FALSE]
    /\ dm_state' = [dm_state EXCEPT ![d] = None]
    /\ data_task' = [data_task EXCEPT ![d] = FALSE]
    /\ first_data_received' = [first_data_received EXCEPT ![d] = FALSE]

\* shutdown goes on after its _end_recording: the disconnect loop, lines
\* 1222-1231.  One ready device is disconnected per step (the cleanup and
\* the sleep of 0.5 s suspend the coroutine).
ShutdownDisconnectLoop ==
    LET d == NextReady(sd_last)
    IN  IF d = 0
        THEN /\ shutdown_pc' = "done"
             /\ UNCHANGED <<sd_last, is_ready, dm_state, data_task,
                            first_data_received>>
        ELSE /\ shutdown_pc' = "disconnect"
             /\ sd_last' = d
             /\ ManagerDisconnect(d)

\* The coroutine that awaits the executor resumes: lines 1435-1495 (the
\* statistics and the fire-and-forget uploads), and the lock is released.
SaveResume ==
    /\ save_args # <<>>
    /\ save_args[1].written
    /\ save_args' = <<>>
    /\ save_lock' = "free"
    /\ IF save_lock = "shutdown"
       THEN ShutdownDisconnectLoop
       ELSE UNCHANGED <<shutdown_pc, sd_last, is_ready, dm_state, data_task,
                        first_data_received>>
    /\ UNCHANGED <<running, recording, trigger_time, trigger_device, event_id,
                   event_data, z_stop_windows, z_axis_offset, cal_pc, cal_keys,
                   end_tasks, stale_tasks, event_dirs, main_pc, start_idx,
                   buffer, current_data, reconnecting, envVars, histVars>>
    /\ UNCHANGED <<fleetVars, saveVars, rxVars, partVars, shutdown_again>>

(***************************************************************************)
(* shutdown, lines 1201-1231, run as the task the signal handler creates   *)
(* (lines 829-836).  shutdown_pc: "none", "wait_lock" (in _end_recording,  *)
(* waiting for the lock), "saving" (awaiting the executor), "disconnect"   *)
(* (in the disconnect loop), "done".  One signal is delivered in a run,    *)
(* after start has returned.                                               *)
(***************************************************************************)
\* `await self._end_recording()` of shutdown once the lock is free.
ShutdownEndRecording ==
    /\ Handoff("shutdown")
    /\ IF recording
       THEN /\ shutdown_pc' = "saving"
            /\ UNCHANGED <<sd_last, is_ready, dm_state, data_task,
                           first_data_received>>
       ELSE ShutdownDisconnectLoop

\* A signal arrives and the task it creates starts: lines 1208-1220, up to
\* the first suspension.
ShutdownBegin ==
    /\ shutdown_pc = "none"
    /\ main_pc \in {"run", "reconnect"}
    /\ IF ~running
       THEN /\ shutdown_pc' = "done"
            /\ UNCHANGED <<running, recording, event_data, save_args,
                           save_lock, histVars, sd_last, is_ready, dm_state,
                           data_task, first_data_received>>
       ELSE /\ running' = FALSE
            /\ IF recording /\ save_lock # "free"
               THEN /\ shutdown_pc' = "wait_lock"
                    /\ UNCHANGED <<recording, event_data, save_args, save_lock,
                                   histVars, sd_last, is_ready, dm_state,
                                   data_task, first_data_received>>
               ELSE ShutdownEndRecording
    /\ UNCHANGED <<trigger_time, trigger_device, event_id, z_stop_windows,
                   z_axis_offset, cal_pc, cal_keys, end_tasks, stale_tasks, event_dirs,
                   main_pc, start_idx, buffer, current_data, reconnecting,
                   envVars>>
    /\ UNCHANGED <<fleetVars, saveVars, rxVars, partVars, shutdown_again>>

\* shutdown, suspended on the lock in _end_recording, gets it.
ShutdownAcquire ==
    /\ shutdown_pc = "wait_lock"
    /\ save_lock = "free"
    /\ ShutdownEndRecording
    /\ UNCHANGED <<running, trigger_time, trigger_device, event_id,
                   z_stop_windows, z_axis_offset, cal_pc, cal_keys, end_tasks, stale_tasks,
                   event_dirs, main_pc, start_idx, buffer, current_data,
                   reconnecting, envVars>>
    /\ UNCHANGED <<fleetVars, saveVars, rxVars, partVars, shutdown_again>>

\* The disconnect loop goes on after the sleep of 0.5 s, line 1228.
ShutdownDisconnectNext ==
    /\ shutdown_pc = "disconnect"
    /\ ShutdownDisconnectLoop
    /\ UNCHANGED <<running, recording, trigger_time, trigger_device, event_id,
                   event_data, z_stop_windows, z_axis_offset, cal_pc, cal_keys,
                   save_lock, end_tasks, stale_tasks, save_args, event_dirs, main_pc,
                   start_idx, buffer, current_data, reconnecting, envVars,
                   histVars>>
    /\ UNCHANGED <<fleetVars, saveVars, rxVars, partVars, shutdown_again>>

\* `if not self.running: return`, lines 1208-1209.
ShutdownProceedsAlways == TRUE
ShutdownProceeds == running

\* shutdown is called a second time (a second signal, or the finally clause
\* of run, lines 1858-1859) after the first call has begun: lines
\* 1208-1228 up to its first suspension.
ShutdownAgain ==
    /\ shutdown_pc # "none"
    /\ shutdown_again = "none"
    /\ IF ~ShutdownProceeds
       THEN /\ shutdown_again' = "returned"
            /\ UNCHANGED <<running, recording, event_data, save_args,
                           save_lock, histVars, is_ready, dm_state, data_task,
                           first_data_received>>
       ELSE /\ shutdown_again' = "acted"
            /\ running' = FALSE
            /\ IF recording
               THEN /\ IF save_lock = "free"
                       THEN Handoff("again")
                       ELSE UNCHANGED <<recording, event_data, save_args,
                                        save_lock, histVars>>
                    /\ UNCHANGED <<is_ready, dm_state, data_task,
                                   first_data_received>>
               ELSE /\ IF NextReady(0) = 0
                       THEN UNCHANGED <<is_ready, dm_state, data_task,
                                        first_data_received>>
                       ELSE ManagerDisconnect(NextReady(0))
                    /\ UNCHANGED <<recording, event_data, save_args,
                                   save_lock, histVars>>
    /\ UNCHANGED <<trigger_time, trigger_device, event_id, z_stop_windows,
                   z_axis_offset, cal_pc, cal_keys, end_tasks, stale_tasks, event_dirs,
                   shutdown_pc, sd_last, main_pc, start_idx, buffer,
                   current_data, reconnecting, envVars>>
    /\ UNCHANGED <<fleetVars, saveVars, rxVars, partVars>>

(***************************************************************************)
(* The main coroutine: start (lines 1009-1073) and the health loop of run  *)
(* (lines 1715-1859), with IMUManager.connect / check_and_reconnect and    *)
(* DeviceModel.connect condensed to the steps the detector can observe.    *)
(* main_pc: "start" (in the connect loop of start, at device start_idx),   *)
(* "connect" (awaiting imu.connect()), "run" (the run loop), "reconnect"   *)
(* (inside check_and_reconnect of the device with reconnecting set),       *)
(* "exit" (start has failed).  dm_state[d] is None while the manager has no DeviceModel,      *)
(* "discovering" from the creation of the DeviceModel to its first sample  *)
(* (the connect phase), "ready" afterwards.                                *)
(***************************************************************************)

\* A DeviceModel is created and DeviceModel.connect runs up to the wait for
\* the first sample (witmotion_device_stable.py 81-160); ok = FALSE is a
\* failure before the notifications start: _cleanup, then the manager drops
\* the device (train_detector_stable.py 148-159, 280-286).
OpenDevice(d, ok) ==
    IF ok
    THEN /\ dm_state' = [dm_state EXCEPT ![d] = "discovering"]
         /\ data_task' = [data_task EXCEPT ![d] = TRUE]
         /\ first_data_received' = [first_data_received EXCEPT ![d] = FALSE]
         /\ UNCHANGED is_ready
    ELSE ManagerDisconnect(d)

\* start: `success = await imu.connect()` for the next device, line 1047.
StartConnect(ok) ==
    /\ main_pc = "start"
    /\ start_idx \in Devices
    /\ OpenDevice(start_idx, ok)
    /\ main_pc' = IF ok THEN "connect" ELSE "start"
    /\ start_idx' = IF ok THEN start_idx ELSE start_idx + 1
    /\ UNCHANGED <<running, recording, trigger_time, trigger_device, event_id,
                   event_data, z_stop_windows, z_axis_offset, cal_pc, cal_keys,
                   save_lock, end_tasks, stale_tasks, save_args, event_dirs, shutdown_pc,
                   sd_last, buffer, current_data, reconnecting, envVars,
                   histVars>>
    /\ UNCHANGED <<fleetVars, saveVars, rxVars, partVars, shutdown_again>>

\* The coroutine that awaits the connect goes on: start's loop moves to the
\* next device, check_and_reconnect returns (finally: reconnecting = False).
ConnectReturns(d) ==
    /\ main_pc' = IF main_pc = "connect" THEN "start" ELSE "run"
    /\ start_idx' = IF main_pc = "connect" THEN start_idx + 1 ELSE start_idx
    /\ reconnecting' = [reconnecting EXCEPT ![d] = FALSE]

\* The wait for the first sample ends well: DeviceModel READY
\* (witmotion_device_stable.py 167-176) and is_ready = True (lines 141-147,
\* 273-279).
ConnectReady(d) ==
    /\ dm_state[d] = "discovering"
    /\ first_data_received[d]
    /\ dm_state' = [dm_state EXCEPT ![d] = "ready"]
    /\ is_ready' = [is_ready EXCEPT ![d] = TRUE]
    /\ ConnectReturns(d)
    /\ UNCHANGED <<running, recording, trigger_time, trigger_device, event_id,
                   event_data, z_stop_windows, z_axis_offset, cal_pc, cal_keys,
                   save_lock, end_tasks, stale_tasks, save_args, event_dirs, shutdown_pc,
                   sd_last, data_task, first_data_received, buffer,
                   current_data, envVars, histVars>>
    /\ UNCHANGED <<fleetVars, saveVars, rxVars, partVars, shutdown_again>>

\* FIRST_DATA_TIMEOUT passes without a sample (witmotion_device_stable.py
\* 162-165): _cleanup, and the manager drops the device.
ConnectTimeout(d) ==
    /\ dm_state[d] = "discovering"
    /\ ~first_data_received[d]
    /\ ManagerDisconnect(d)
    /\ ConnectReturns(d)
    /\ UNCHANGED <<running, recording, trigger_time, trigger_device, event_id,
                   event_data, z_stop_windows, z_axis_offset, cal_pc, cal_keys,
                   save_lock, end_tasks, stale_tasks, save_args, event_dirs, shutdown_pc,
                   sd_last, buffer, current_data, envVars, histVars>>
    /\ UNCHANGED <<fleetVars, saveVars, rxVars, partVars, shutdown_again>>

\* start after its connect loop, lines 1057-1073: detection starts and the
\* initial calibration begins (lines 1087-1106), or start fails.
StartDetection ==
    /\ main_pc = "start"
    /\ start_idx \notin Devices
    /\ IF \E n \in Devices : is_ready[n]
       THEN /\ running' = TRUE
            /\ main_pc' = "run"
            /\ cal_pc' = "check"
            /\ cal_keys' = {n \in Devices : is_ready[n]}
       ELSE /\ main_pc' = "exit"
            /\ UNCHANGED <<running, cal_pc, cal_keys>>
    /\ UNCHANGED <<recording, trigger_time, trigger_device, event_id,
                   event_data, z_stop_windows, z_axis_offset, save_lock,
                   end_tasks, stale_tasks, save_args, event_dirs, shutdown_pc, sd_last,
                   start_idx, supVars, envVars, histVars>>
    /\ UNCHANGED <<fleetVars, saveVars, rxVars, partVars, shutdown_again>>

\* _perform_calibration gives up after its vibration check, lines 1119-1139.
CalibrationReject ==
    /\ cal_pc = "check"
    /\ cal_keys # {}
    /\ cal_pc' = "idle"
    /\ cal_keys' = {}
    /\ UNCHANGED <<running, recording, trigger_time, trigger_device, event_id,
                   event_data, z_stop_windows, z_axis_offset, save_lock,
                   end_tasks, stale_tasks, save_args, event_dirs, shutdown_pc, sd_last,
                   main_pc, start_idx, supVars, envVars, histVars>>
    /\ UNCHANGED <<fleetVars, saveVars, rxVars, partVars, shutdown_again>>

\* The vibration check passes: the devices to calibrate are the ready ones,
\* lines 1141-1149.
CalibrationCheckPass ==
    /\ cal_pc = "check"
    /\ cal_pc' = "collect"
    /\ cal_keys' = {n \in Devices : is_ready[n]}
    /\ UNCHANGED <<running, recording, trigger_time, trigger_device, event_id,
                   event_data, z_stop_windows, z_axis_offset, save_lock,
                   end_tasks, stale_tasks, save_args, event_dirs, shutdown_pc, sd_last,
                   main_pc, start_idx, supVars, envVars, histVars>>
    /\ UNCHANGED <<fleetVars, saveVars, rxVars, partVars, shutdown_again>>

\* The offsets are stored and every stop window replaced by an empty one,
\* lines 1172-1199.  offs is the mean of the collected AccZ values.
CalibrationCommit(offs) ==
    /\ cal_pc = "collect"
    /\ z_axis_offset' = [n \in Devices |->
                            IF n \in cal_keys THEN offs[n] ELSE z_axis_offset[n]]
    /\ z_stop_windows' = [n \in Devices |-> <<>>]
    /\ cal_pc' = "idle"
    /\ cal_keys' = {}
    /\ UNCHANGED <<running, recording, trigger_time, trigger_device, event_id,
                   event_data, save_lock, end_tasks, stale_tasks, save_args, event_dirs,
                   shutdown_pc, sd_last, main_pc, start_idx, supVars, envVars,
                   histVars>>
    /\ UNCHANGED <<fleetVars, saveVars, rxVars, partVars, shutdown_again>>

\* run: a round of the health loop (`while self.running`, line 1734) finds
\* the ready device d unhealthy, and check_and_reconnect disconnects it,
\* lines 231-260.
Reconnect(d) ==
    /\ main_pc = "run"
    /\ running
    /\ ~calibrating
    /\ is_ready[d]
    /\ reconnects < MaxReconnects
    /\ reconnects' = reconnects + 1
    /\ ManagerDisconnect(d)
    /\ reconnecting' = [reconnecting EXCEPT ![d] = TRUE]
    /\ main_pc' = "reconnect"
    /\ UNCHANGED <<running, recording, trigger_time, trigger_device, event_id,
                   event_data, z_stop_windows, z_axis_offset, cal_pc, cal_keys,
                   save_lock, end_tasks, stale_tasks, save_args, event_dirs, shutdown_pc,
                   sd_last, start_idx, buffer, current_data, now, ticks,
                   frames, histVars>>
    /\ UNCHANGED <<fleetVars, saveVars, rxVars, partVars, shutdown_again>>

\* check_and_reconnect after its sleep of 2 s: the new connect, lines
\* 262-286.
ReconnectConnect(d, ok) ==
    /\ main_pc = "reconnect"
    /\ reconnecting[d]
    /\ dm_state[d] = None
    /\ OpenDevice(d, ok)
    /\ main_pc' = IF ok THEN "reconnect" ELSE "run"
    /\ reconnecting' = [reconnecting EXCEPT ![d] = ok]
    /\ UNCHANGED <<running, recording, trigger_time, trigger_device, event_id,
                   event_data, z_stop_windows, z_axis_offset, cal_pc, cal_keys,
                   save_lock, end_tasks, stale_tasks, save_args, event_dirs, shutdown_pc,
                   sd_last, start_idx, buffer, current_data, envVars,
                   histVars>>
    /\ UNCHANGED <<fleetVars, saveVars, rxVars, partVars, shutdown_again>>

\* time.time() advances.  Only the time elapsed in a session is read (line
\* 1273), so the clock of the model stands still between sessions.
Tick ==
    /\ ticks < MaxTicks
    /\ recording
    /\ ticks' = ticks + 1
    /\ now' = now + TickStep
    /\ UNCHANGED <<detVars, supVars, frames, reconnects, histVars>>
    /\ UNCHANGED <<fleetVars, saveVars, rxVars, partVars, shutdown_again>>

(***************************************************************************)
(* The state after construction (TrainDetector.__init__, lines 711-810,    *)
(* IMUManager.__init__, lines 76-113), and the specification of the        *)
(* detector.  last_reconnect_time and IMUManager.last_health_check start   *)
(* at 0, so their ages start beyond every interval they are compared to.   *)
(***************************************************************************)
Init ==
    /\ running = FALSE
    /\ recording = FALSE
    /\ trigger_time = 0
    /\ trigger_device = 0
    /\ event_id = <<>>
    /\ event_data = NoData
    /\ z_stop_windows = [n \in Devices |-> <<>>]
    /\ z_axis_offset = [n \in Devices |-> 0]
    /\ cal_pc = "idle"
    /\ cal_keys = {}
    /\ save_lock = "free"
    /\ end_tasks = 0
    /\ stale_tasks = 0
    /\ save_args = <<>>
    /\ event_dirs = {}
    /\ shutdown_pc = "none"
    /\ shutdown_again = "none"
    /\ sd_last = 0
    /\ main_pc = "start"
    /\ start_idx = 1
    /\ is_ready = [n \in Devices |-> FALSE]
    /\ dm_state = [n \in Devices |-> None]
    /\ data_task = [n \in Devices |-> FALSE]
    /\ first_data_received = [n \in Devices |-> FALSE]
    /\ buffer = NoData
    /\ current_data = NoData
    /\ reconnecting = [n \in Devices |-> FALSE]
    /\ now = 0
    /\ ticks = 0
    /\ frames = 0
    /\ reconnects = 0
    /\ delivered = NoData
    /\ preroll = NoData
    /\ cur = 0
    /\ hl_idx = 0
    /\ sleep_left = 0
    /\ last_data_age = [n \in Devices |-> 0]
    /\ last_reconnect_age = reconnect_global_cooldown
    /\ time_since_last_reconnect = reconnect_global_cooldown
    /\ current_time_age = 0
    /\ last_health_check_age = 0
    /\ imu_health_check_age = [n \in Devices |-> health_check_interval]
    /\ attempt_age = reconnect_global_cooldown
    /\ consecutive_failures = [n \in Devices |-> 0]
    /\ failure_streak = [n \in Devices |-> 0]
    /\ connected_age = start_pause
    /\ save_pc = "idle"
    /\ event_data_copy = NoData
    /\ dev_num = 0
    /\ saved_files = {}
    /\ event_dir = FALSE
    /\ csv_files = {}
    /\ csv_rows = NoData
    /\ metadata_json = <<>>
    /\ events_rows = <<>>
    /\ stream = <<>>
    /\ sent = 0
    /\ slices_in = 0
    /\ dropped = {}
    /\ raw_data_queue = <<>>
    /\ TempBytes = <<>>
    /\ samples = <<>>
    /\ max_size = 0
    /\ cb_buffer = <<>>
    /\ cb_added = <<>>
    /\ cb_returned = <<>>
    /\ cb_expected = <<>>
    /\ uploader = [u \in {"event", "health"} |->
                      [pc |-> "idle", posts |-> 0, result |-> "none",
                       upload_count |-> 0, upload_failures |-> 0]]
    /\ upload_due = TRUE
    /\ link_state = "disconnected"
    /\ link_task = "none"
    /\ client_connected = FALSE
    /\ notify_on = FALSE
    /\ cleanup_pc = "idle"
    /\ queued = 0
    /\ parsed = 0
    /\ link_closed = FALSE
    /\ link_first_data = FALSE
    /\ sessions = 0
    /\ os_pc = "loop"
    /\ ble_operations_paused = FALSE
    /\ os_success = FALSE
    /\ soft_outcome = "none"
    /\ hard_attempted = FALSE
    /\ global_cooldown = FALSE
    /\ mac_cooldown = FALSE
    /\ os_runs = 0
    /\ os_checks = 0
    /\ os_connects = 0
    /\ connection_lock = 0
    /\ mgr_reconnecting = FALSE
    /\ mgr_is_ready = FALSE
    /\ mgr_device = FALSE
    /\ devices_made = 0
    /\ call_pc = [c \in 1 .. 2 |-> "idle"]
    /\ mgr_calls = 0
    /\ mgr_rejects = 0
    /\ health_window = <<>>
    /\ since_poll = health_check_interval
    /\ win_fresh = FALSE
    /\ window_healthy = TRUE
    /\ poll_is_healthy = TRUE
    /\ cal_now = 2 * calibration_interval
    /\ cal_ticks = 0
    /\ last_calibration_time = 0
    /\ cal_run = "idle"
    /\ cal_current_time = 0
    /\ cal_offset = [n \in Devices |-> 0]
    /\ cal_window = [n \in Devices |-> 0]
    /\ cal_rejected = FALSE

TaskStep ==
    \/ EndRecordingTask
    \/ SaveWrite
    \/ SaveResume
    \/ ShutdownAcquire
    \/ ShutdownDisconnectNext

MainStep ==
    \/ \E ok \in BOOLEAN : StartConnect(ok)
    \/ \E d \in Devices : ConnectReady(d)
    \/ \E d \in Devices : ConnectTimeout(d)
    \/ StartDetection
    \/ CalibrationReject
    \/ CalibrationCheckPass
    \/ \E offs \in [Devices -> BiasValues] : CalibrationCommit(offs)
    \/ \E d \in Devices : Reconnect(d)
    \/ \E d \in Devices, ok \in BOOLEAN : ReconnectConnect(d, ok)

EnvStep ==
    \/ \E d \in Devices, s \in Samples : FrameParsed(d, s)
    \/ ShutdownBegin
    \/ ShutdownAgain
    \/ Tick

NextDet == TaskStep \/ MainStep \/ EnvStep

SpecDet == Init /\ [][NextDet]_vars

\* The event loop runs every task and the main coroutine whenever they can
\* run; the arrival of frames and of the signal is left to the environment.
FairSpecDet == SpecDet /\ WF_vars(TaskStep) /\ WF_vars(MainStep)

(***************************************************************************)
(* The coordinator in real time.                                           *)
(*                                                                         *)
(* The main coroutine is the only one that connects: main_pc is "start"    *)
(* (the connect loop of start), "connect" (inside DeviceModel.connect of   *)
(* device cur), "cleaned_fail" (_cleanup has returned inside a failed      *)
(* connect), "run" (the sleep of a round of run), "health" (the loop over  *)
(* the devices, at index hl_idx), "cleaned_disc" (_cleanup has returned    *)
(* inside the disconnect of check_and_reconnect), "rc_sleep" (its sleep of *)
(* 2 s), "exit".  dm_state[d] is DeviceModel.state, None without a         *)
(* DeviceModel.                                                            *)
(*                                                                         *)
(* Time: Tick is one second.  An instant t the code stores is kept as the  *)
(* age now - t, counted up to the largest value it is compared to.  The    *)
(* coroutine moves as soon as its wait is over: time passes only while it  *)
(* waits (sleep_left > 0).                                                 *)
(***************************************************************************)

\* How long a round of run waits: asyncio.sleep(1), line 1735, and what the
\* round awaits besides (the status upload, a calibration).
RoundPeriods == {1, 2}
\* How long BleakClient.connect takes, in whole seconds.
ConnectDurations == {0, 1}

Older(age, cap) == IF age < cap THEN age + 1 ELSE cap

\* What the fleet leaves alone: the detector.
DetectorIdle ==
    UNCHANGED <<recording, trigger_time, trigger_device, event_id, event_data,
                z_stop_windows, z_axis_offset, cal_pc, cal_keys, save_lock,
                end_tasks, stale_tasks, save_args, event_dirs, shutdown_pc, sd_last,
                buffer, current_data, envVars, histVars, saveVars,
                rxVars, partVars, shutdown_again>>

\* The state DeviceModel._cleanup leaves, lines 268-271.
CleanupState(old_state) ==
    IF old_state \in {"connected", "discovering", "ready"}
    THEN "disconnected"
    ELSE old_state

\* DeviceModel._cleanup, lines 222-273: the consumer task is cancelled, the
\* link closed, the state migrated.
Cleanup(d) ==
    /\ dm_state' = [dm_state EXCEPT ![d] = CleanupState(@)]
    /\ data_task' = [data_task EXCEPT ![d] = FALSE]
    /\ first_data_received' = [first_data_received EXCEPT ![d] = FALSE]

\* A new DeviceModel (state DISCONNECTED) enters connect: CONNECTING, and
\* the wait for BleakClient.connect, witmotion_device_stable.py 92-110.
OpenLink(d) ==
    /\ cur' = d
    /\ dm_state' = [dm_state EXCEPT ![d] = "connecting"]
    /\ \E c \in ConnectDurations : sleep_left' = c
    /\ main_pc' = "connect"
    /\ consecutive_failures' = [consecutive_failures EXCEPT ![d] = 0]

\* start: `success = await imu.connect()` for the next device, line 1047
\* (IMUManager.connect, lines 115-139).
FleetStartConnect ==
    /\ main_pc = "start"
    /\ start_idx \in Devices
    /\ sleep_left = 0
    /\ OpenLink(start_idx)
    /\ UNCHANGED <<running, start_idx, is_ready, data_task,
                   first_data_received, reconnecting, hl_idx, last_data_age,
                   last_reconnect_age, time_since_last_reconnect,
                   current_time_age, last_health_check_age,
                   imu_health_check_age, attempt_age,
                   failure_streak, connected_age>>
    /\ DetectorIdle

\* BleakClient.connect returns: CONNECTED and DISCOVERING (lines 119-123),
\* or a timeout or a failure and _cleanup (lines 106-117).
LinkConnect(ok) ==
    /\ main_pc = "connect"
    /\ dm_state[cur] = "connecting"
    /\ sleep_left = 0
    /\ IF ok
       THEN /\ dm_state' = [dm_state EXCEPT ![cur] = "discovering"]
            /\ UNCHANGED <<main_pc, data_task, first_data_received>>
       ELSE /\ Cleanup(cur)
            /\ main_pc' = "cleaned_fail"
    /\ UNCHANGED <<running, start_idx, is_ready, reconnecting, cur, hl_idx,
                   sleep_left, last_data_age, last_reconnect_age,
                   time_since_last_reconnect, current_time_age,
                   last_health_check_age, imu_health_check_age, attempt_age,
                   consecutive_failures, failure_streak, connected_age>>
    /\ DetectorIdle

\* Service discovery and start_notify, lines 124-160: the consumer task is
\* created and the wait for the first sample begins, or _cleanup.
Discover(ok) ==
    /\ main_pc = "connect"
    /\ dm_state[cur] = "discovering"
    /\ ~data_task[cur]
    /\ IF ok
       THEN /\ data_task' = [data_task EXCEPT ![cur] = TRUE]
            /\ first_data_received' = [first_data_received EXCEPT ![cur] = FALSE]
            /\ sleep_left' = first_data_timeout
            /\ UNCHANGED <<main_pc, dm_state>>
       ELSE /\ Cleanup(cur)
            /\ main_pc' = "cleaned_fail"
            /\ UNCHANGED sleep_left
    /\ UNCHANGED <<running, start_idx, is_ready, reconnecting, cur, hl_idx,
                   last_data_age, last_reconnect_age,
                   time_since_last_reconnect, current_time_age,
                   last_health_check_age, imu_health_check_age, attempt_age,
                   consecutive_failures, failure_streak, connected_age>>
    /\ DetectorIdle

\* A frame of device d is parsed by its consumer task: first_data_received
\* and last_data_time, witmotion_device_stable.py 356-366.
FleetSample(d) ==
    /\ data_task[d]
    /\ last_data_age' = [last_data_age EXCEPT ![d] = 0]
    /\ first_data_received' = [first_data_received EXCEPT ![d] = TRUE]
    /\ UNCHANGED <<running, main_pc, start_idx, is_ready, dm_state, data_task,
                   reconnecting, cur, hl_idx, sleep_left, last_reconnect_age,
                   time_since_last_reconnect, current_time_age,
                   last_health_check_age, imu_health_check_age, attempt_age,
                   consecutive_failures, failure_streak, connected_age>>
    /\ DetectorIdle

\* IMUManager.should_trigger_os_cleanup, lines 294-303, of a manager whose
\* device is `device` (None when it has none) with `failures` consecutive
\* failures.
should_trigger_os_cleanup(device, failures) ==
    /\ device # None
    /\ failures >= max_consecutive_failures

\* run after check_and_reconnect has returned, lines 1808-1809: the
\* escalation to _os_level_ble_cleanup when the manager asks for it, the
\* next device of the loop when it does not.
OsCleanupCheck(trigger) ==
    IF trigger
    THEN main_pc' = "os_cleanup" /\ UNCHANGED hl_idx
    ELSE main_pc' = "health" /\ hl_idx' = hl_idx + 1

\* The sleep of start after a connect, lines 1049-1055, in whole seconds:
\* 1.0 s after a success, 0.5 s after a failure (which the clock of whole
\* seconds sees as no second or as one).
StartPauseNone(success) == {0}
StartPause(success) == IF success THEN {start_pause} ELSE {0, 1}

\* The connect of device cur returns to its caller.  In start the loop
\* sleeps and goes to the next device (lines 1049-1055).  In
\* check_and_reconnect the finally clause clears reconnecting (line 292) and
\* run goes on: a successful reconnection sets last_reconnect_time to the
\* current_time of the round (line 1791), and the loop takes the next
\* device.
ConnectReturn(success) ==
    /\ cur' = 0
    /\ connected_age' = IF success THEN 0 ELSE connected_age
    /\ IF reconnecting[cur]
       THEN /\ reconnecting' = [reconnecting EXCEPT ![cur] = FALSE]
            /\ OsCleanupCheck(should_trigger_os_cleanup(dm_state'[cur],
                                                        consecutive_failures'[cur]))
            /\ last_reconnect_age' =
                  IF success THEN current_time_age ELSE last_reconnect_age
            /\ time_since_last_reconnect' =
                  IF success THEN 0 ELSE time_since_last_reconnect
            /\ sleep_left' = 0
            /\ UNCHANGED start_idx
       ELSE /\ main_pc' = "start"
            /\ start_idx' = start_idx + 1
            /\ \E p \in StartPause(success) : sleep_left' = p
            /\ UNCHANGED <<reconnecting, hl_idx, last_reconnect_age,
                           time_since_last_reconnect>>

\* `while not self.first_data_received`, witmotion_device_stable.py 166: the
\* wait of connect ends when the consumer task has parsed a frame.
FirstDataArrivedAlways(d) == TRUE
FirstDataArrived(d) == first_data_received[d]

\* The first sample has come: READY (witmotion_device_stable.py 171-176),
\* is_ready (train_detector_stable.py 141-147, 273-279).
FleetConnectReady ==
    /\ main_pc = "connect"
    /\ data_task[cur]
    /\ FirstDataArrived(cur)
    /\ dm_state' = [dm_state EXCEPT ![cur] = "ready"]
    /\ is_ready' = [is_ready EXCEPT ![cur] = TRUE]
    /\ consecutive_failures' = [consecutive_failures EXCEPT ![cur] = 0]
    /\ failure_streak' = [failure_streak EXCEPT ![cur] = 0]
    /\ ConnectReturn(TRUE)
    /\ UNCHANGED <<running, data_task, first_data_received, last_data_age,
                   current_time_age, last_health_check_age,
                   imu_health_check_age, attempt_age>>
    /\ DetectorIdle

\* FIRST_DATA_TIMEOUT has passed without a sample: _cleanup,
\* witmotion_device_stable.py 166-169.
FirstDataTimeout ==
    /\ main_pc = "connect"
    /\ data_task[cur]
    /\ ~first_data_received[cur]
    /\ sleep_left = 0
    /\ Cleanup(cur)
    /\ main_pc' = "cleaned_fail"
    /\ UNCHANGED <<running, start_idx, is_ready, reconnecting, cur, hl_idx,
                   sleep_left, last_data_age, last_reconnect_age,
                   time_since_last_reconnect, current_time_age,
                   last_health_check_age, imu_health_check_age, attempt_age,
                   consecutive_failures, failure_streak, connected_age>>
    /\ DetectorIdle

\* The failure path without `self.device = None` of disconnect, line 167.
ConnectFailedKeepsDevice ==
    /\ main_pc = "cleaned_fail"
    /\ is_ready' = [is_ready EXCEPT ![cur] = FALSE]
    /\ consecutive_failures' = [consecutive_failures EXCEPT ![cur] = @ + 1]
    /\ failure_streak' = [failure_streak EXCEPT ![cur] = @ + 1]
    /\ UNCHANGED dm_state
    /\ ConnectReturn(FALSE)
    /\ UNCHANGED <<running, data_task, first_data_received, last_data_age,
                   current_time_age, last_health_check_age,
                   imu_health_check_age, attempt_age>>
    /\ DetectorIdle

\* DeviceModel.connect has failed: the manager disconnects and drops the
\* device, lines 148-159 and 280-286, and returns False.
ConnectFailed ==
    /\ main_pc = "cleaned_fail"
    /\ is_ready' = [is_ready EXCEPT ![cur] = FALSE]
    /\ consecutive_failures' = [consecutive_failures EXCEPT ![cur] = @ + 1]
    /\ failure_streak' = [failure_streak EXCEPT ![cur] = @ + 1]
    /\ dm_state' = [dm_state EXCEPT ![cur] = None]
    /\ ConnectReturn(FALSE)
    /\ UNCHANGED <<running, data_task, first_data_received, last_data_age,
                   current_time_age, last_health_check_age,
                   imu_health_check_age, attempt_age>>
    /\ DetectorIdle

\* start after its connect loop, lines 1057-1073, and the entry of run,
\* lines 1728-1735: last_health_check = time.time(), and the first sleep.
FleetStartDetection ==
    /\ main_pc = "start"
    /\ start_idx \notin Devices
    /\ sleep_left = 0
    /\ IF \E n \in Devices : is_ready[n]
       THEN /\ running' = TRUE
            /\ main_pc' = "run"
            /\ last_health_check_age' = 0
            /\ \E p \in RoundPeriods : sleep_left' = p
       ELSE /\ main_pc' = "exit"
            /\ UNCHANGED <<running, last_health_check_age, sleep_left>>
    /\ UNCHANGED <<start_idx, supVars, cur, hl_idx, last_data_age,
                   last_reconnect_age, time_since_last_reconnect,
                   current_time_age, imu_health_check_age, attempt_age,
                   consecutive_failures, failure_streak, connected_age>>
    /\ DetectorIdle

\* A round of run begins, lines 1734-1770: current_time is read, and the
\* health loop is entered every health_check_interval.
RunRound ==
    /\ main_pc = "run"
    /\ sleep_left = 0
    /\ running
    /\ current_time_age' = 0
    /\ time_since_last_reconnect' = last_reconnect_age
    /\ IF last_health_check_age >= health_check_interval
       THEN /\ last_health_check_age' = 0
            /\ main_pc' = "health"
            /\ hl_idx' = 1
            /\ UNCHANGED sleep_left
       ELSE /\ \E p \in RoundPeriods : sleep_left' = p
            /\ UNCHANGED <<last_health_check_age, main_pc, hl_idx>>
    /\ UNCHANGED <<running, start_idx, supVars, cur, last_data_age,
                   last_reconnect_age, imu_health_check_age, attempt_age,
                   consecutive_failures, failure_streak, connected_age>>
    /\ DetectorIdle

\* The health loop is through the devices: the next round, line 1735.
HealthLoopEnd ==
    /\ main_pc = "health"
    /\ hl_idx \notin Devices
    /\ main_pc' = "run"
    /\ \E p \in RoundPeriods : sleep_left' = p
    /\ UNCHANGED <<running, start_idx, supVars, cur, hl_idx, last_data_age,
                   last_reconnect_age, time_since_last_reconnect,
                   current_time_age, last_health_check_age,
                   imu_health_check_age, attempt_age,
                   consecutive_failures, failure_streak, connected_age>>
    /\ DetectorIdle

\* check_health, witmotion_device_stable.py 501-530, of a READY device that
\* has received data.  The sliding window holds this check alone among
\* those of the last second (the checks of a device are 2 s apart), so it
\* fails exactly when this check fails (lines 463-499).
CheckHealth(d) == ~(last_data_age[d] > data_timeout)

\* check_and_reconnect starts the reconnection of d, lines 243-257:
\* reconnecting is set and the device disconnected.
StartReconnectDetached(d) ==
    /\ reconnecting' = [reconnecting EXCEPT ![d] = TRUE]
    /\ is_ready' = [is_ready EXCEPT ![d] = FALSE]
    /\ Cleanup(d)
    /\ attempt_age' = 0
    /\ hl_idx' = hl_idx + 1
    /\ UNCHANGED <<main_pc, cur>>
StartReconnect(d) ==
    /\ reconnecting' = [reconnecting EXCEPT ![d] = TRUE]
    /\ is_ready' = [is_ready EXCEPT ![d] = FALSE]
    /\ Cleanup(d)
    /\ attempt_age' = 0
    /\ main_pc' = "cleaned_disc"
    /\ cur' = d
    /\ UNCHANGED hl_idx

\* The health loop at device hl_idx, lines 1772-1787 and 1808-1809, with
\* check_and_reconnect up to its first suspension, lines 210-257.
HealthCheckDevice ==
    /\ main_pc = "health"
    /\ hl_idx \in Devices
    /\ LET d == hl_idx
       IN  IF \/ ~is_ready[d]
              \/ time_since_last_reconnect < reconnect_global_cooldown
           THEN /\ hl_idx' = hl_idx + 1
                /\ UNCHANGED <<imu_health_check_age, supVars, main_pc, cur,
                               attempt_age>>
           ELSE IF imu_health_check_age[d] < health_check_interval
           THEN /\ OsCleanupCheck(should_trigger_os_cleanup(dm_state[d],
                                                        consecutive_failures[d]))
                /\ UNCHANGED <<imu_health_check_age, supVars, cur,
                               attempt_age>>
           ELSE /\ imu_health_check_age' = [imu_health_check_age EXCEPT ![d] = 0]
                /\ IF CheckHealth(d)
                   THEN /\ OsCleanupCheck(should_trigger_os_cleanup(dm_state[d],
                                                        consecutive_failures[d]))
                        /\ UNCHANGED <<supVars, cur, attempt_age>>
                   ELSE /\ StartReconnect(d)
                        /\ UNCHANGED <<buffer, current_data>>
    /\ UNCHANGED <<running, start_idx, sleep_left, last_data_age,
                   last_reconnect_age, time_since_last_reconnect,
                   current_time_age, last_health_check_age,
                   consecutive_failures, failure_streak, connected_age>>
    /\ UNCHANGED <<recording, trigger_time, trigger_device, event_id,
                   event_data, z_stop_windows, z_axis_offset, cal_pc, cal_keys,
                   save_lock, end_tasks, stale_tasks, save_args, event_dirs, shutdown_pc,
                   sd_last, envVars, histVars, saveVars, rxVars, partVars,
                   shutdown_again>>

\* The disconnect of check_and_reconnect has returned: the manager drops
\* the device (line 167) and sleeps, line 260.
ReconnectSleep ==
    /\ main_pc = "cleaned_disc"
    /\ dm_state' = [dm_state EXCEPT ![cur] = None]
    /\ sleep_left' = reconnect_delay
    /\ main_pc' = "rc_sleep"
    /\ UNCHANGED <<running, start_idx, is_ready, data_task,
                   first_data_received, reconnecting, cur, hl_idx,
                   last_data_age, last_reconnect_age,
                   time_since_last_reconnect, current_time_age,
                   last_health_check_age, imu_health_check_age, attempt_age,
                   consecutive_failures, failure_streak, connected_age>>
    /\ DetectorIdle

\* The sleep is over: the new DeviceModel and its connect, lines 262-271.
ReconnectOpen ==
    /\ main_pc = "rc_sleep"
    /\ sleep_left = 0
    /\ OpenLink(cur)
    /\ UNCHANGED <<running, start_idx, is_ready, data_task,
                   first_data_received, reconnecting, hl_idx, last_data_age,
                   last_reconnect_age, time_since_last_reconnect,
                   current_time_age, last_health_check_age,
                   imu_health_check_age, attempt_age,
                   failure_streak, connected_age>>
    /\ DetectorIdle

\* The coroutine can go on without waiting any longer.
MainCanRun ==
    \/ sleep_left = 0
    \/ /\ main_pc = "connect"
       /\ data_task[cur]
       /\ FirstDataArrived(cur)

\* One second passes while the coroutine waits.
FleetTick ==
    /\ ~MainCanRun
    /\ sleep_left' = sleep_left - 1
    /\ last_data_age' = [n \in Devices |-> Older(last_data_age[n], data_timeout + 1)]
    /\ last_reconnect_age' = Older(last_reconnect_age, reconnect_global_cooldown)
    /\ current_time_age' = Older(current_time_age, reconnect_global_cooldown)
    /\ last_health_check_age' = Older(last_health_check_age, health_check_interval)
    /\ imu_health_check_age' =
          [n \in Devices |-> Older(imu_health_check_age[n], health_check_interval)]
    /\ attempt_age' = Older(attempt_age, reconnect_global_cooldown)
    /\ connected_age' = Older(connected_age, start_pause)
    /\ UNCHANGED <<consecutive_failures, failure_streak>>
    /\ UNCHANGED <<running, main_pc, start_idx, supVars, cur, hl_idx,
                   time_since_last_reconnect>>
    /\ DetectorIdle

FleetMainStep ==
    \/ FleetStartConnect
    \/ \E ok \in BOOLEAN : LinkConnect(ok)
    \/ \E ok \in BOOLEAN : Discover(ok)
    \/ FleetConnectReady
    \/ FirstDataTimeout
    \/ ConnectFailed
    \/ FleetStartDetection
    \/ RunRound
    \/ HealthLoopEnd
    \/ HealthCheckDevice
    \/ ReconnectSleep
    \/ ReconnectOpen

NextFleet ==
    \/ FleetMainStep
    \/ \E d \in Devices : FleetSample(d)
    \/ FleetTick

SpecFleet == Init /\ [][NextFleet]_vars

\* Time passes, and the event loop runs the main coroutine whenever it can
\* run; whether a device sends a frame is left to the device.
FairSpecFleet == SpecFleet /\ WF_vars(FleetTick) /\ WF_vars(FleetMainStep)

(***************************************************************************)
(* The writer: _save_event_data_sync, lines 1497-1602, statement by        *)
(* statement, with the outcomes of its I/O.  The call concerns one event   *)
(* directory, new on disk.                                                 *)
(***************************************************************************)

\* The lists of samples a device can have in event_data_copy; <<>> stands
\* for an absent key (a key always holds a non-empty list).
DataLists == {<<>>, <<SampleLoudZ>>, <<SampleLoudZ, SampleQuiet>>}

\* The keys of a snapshot: list(event_data_copy.keys()), line 1577.
Keys(data) == {n \in Devices : data[n] # <<>>}

WriterIdle ==
    UNCHANGED <<detVars, supVars, envVars, histVars, fleetVars, rxVars,
                partVars>>

\* The executor calls _save_event_data_sync(..., event_data_copy).
SaveCall(data) ==
    /\ save_pc = "idle"
    /\ event_data_copy' = data
    /\ save_pc' = "mkdir"
    /\ dev_num' = 0
    /\ saved_files' = {}
    /\ event_dir' = FALSE
    /\ csv_files' = {}
    /\ csv_rows' = NoData
    /\ metadata_json' = <<>>
    /\ events_rows' = <<>>
    /\ WriterIdle

\* event_dir.mkdir, lines 1515-1522: an OSError ends the call.
SaveMkdir(ok) ==
    /\ save_pc = "mkdir"
    /\ IF ok
       THEN /\ event_dir' = TRUE
            /\ save_pc' = "csv"
            /\ dev_num' = 1
       ELSE /\ save_pc' = "idle"
            /\ UNCHANGED <<event_dir, dev_num>>
    /\ UNCHANGED <<event_data_copy, saved_files, csv_files, csv_rows,
                   metadata_json, events_rows>>
    /\ WriterIdle

\* One turn of the loop over event_data_copy, lines 1528-1567.  An absent
\* device has no turn.  open() fails ("open"), or a write fails after
\* `rows` rows ("write"), or the file is written whole ("ok"); an IOError
\* is logged and the loop goes on.
SaveCsv(outcome, rows) ==
    /\ save_pc = "csv"
    /\ dev_num \in Devices
    /\ dev_num' = dev_num + 1
    /\ LET data_list == event_data_copy[dev_num]
       IN  IF data_list = <<>>
           THEN /\ outcome = "ok"
                /\ rows = 0
                /\ UNCHANGED <<csv_files, csv_rows, saved_files>>
           ELSE /\ \/ /\ outcome = "ok"
                      /\ rows = Len(data_list)
                      /\ saved_files' = saved_files \cup {dev_num}
                   \/ /\ outcome = "write"
                      /\ rows < Len(data_list)
                      /\ UNCHANGED saved_files
                   \/ /\ outcome = "open"
                      /\ rows = 0
                      /\ UNCHANGED saved_files
                /\ csv_files' = IF outcome = "open" THEN csv_files
                                ELSE csv_files \cup {dev_num}
                /\ csv_rows' = [csv_rows EXCEPT
                                   ![dev_num] = SubSeq(data_list, 1, rows)]
    /\ UNCHANGED <<save_pc, event_data_copy, event_dir, metadata_json,
                   events_rows>>
    /\ WriterIdle

\* After the loop, lines 1569-1572: nothing saved ends the call.
SaveCsvDone ==
    /\ save_pc = "csv"
    /\ dev_num \notin Devices
    /\ save_pc' = IF saved_files = {} THEN "idle" ELSE "metadata"
    /\ UNCHANGED <<event_data_copy, dev_num, saved_files, event_dir,
                   csv_files, csv_rows, metadata_json, events_rows>>
    /\ WriterIdle

\* After a failed write of metadata.json, lines 1588-1590: the error is
\* logged and the function goes on.
AfterMetadataError == "database"

\* metadata.json, lines 1574-1590.
SaveMetadata(ok) ==
    /\ save_pc = "metadata"
    /\ metadata_json' =
          IF ok
          THEN <<[devices |-> Keys(event_data_copy),
                  num_devices |-> Cardinality(Keys(event_data_copy))]>>
          ELSE metadata_json
    /\ save_pc' = IF ok THEN "database" ELSE AfterMetadataError
    /\ UNCHANGED <<event_data_copy, dev_num, saved_files, event_dir,
                   csv_files, csv_rows, events_rows>>
    /\ WriterIdle

\* _save_to_database, lines 1593 and 1604-1633: the INSERT and the commit,
\* or an error that is logged; then the end of the call.
SaveToDatabase(ok) ==
    /\ save_pc = "database"
    /\ events_rows' =
          IF ok
          THEN <<[num_devices |-> Cardinality(Keys(event_data_copy))]>>
          ELSE events_rows
    /\ save_pc' = "idle"
    /\ UNCHANGED <<event_data_copy, dev_num, saved_files, event_dir,
                   csv_files, csv_rows, metadata_json>>
    /\ WriterIdle

NextSave ==
    \/ \E data \in [Devices -> DataLists] : SaveCall(data)
    \/ \E ok \in BOOLEAN : SaveMkdir(ok)
    \/ \E outcome \in {"ok", "write", "open"}, rows \in 0 .. 2 :
          SaveCsv(outcome, rows)
    \/ SaveCsvDone
    \/ \E ok \in BOOLEAN : SaveMetadata(ok)
    \/ \E ok \in BOOLEAN : SaveToDatabase(ok)

SpecSave == Init /\ [][NextSave]_vars

(***************************************************************************)
(* The receive path of a DeviceModel: _on_data_received puts the slices of *)
(* a notification into raw_data_queue, process_data_queue takes them out   *)
(* and assembles frames in TempBytes (witmotion_device_stable.py 275-373). *)
(* A slice is [seq |-> its arrival number, bytes |-> its bytes].           *)
(***************************************************************************)

\* The bytes a stream is made of, and the payloads of its frame.
Bytes == {0, Header1, Header2}
Payloads ==
    { [i \in 1 .. FrameLen - 2 |-> 0],
      [i \in 1 .. FrameLen - 2 |-> IF i = 5 THEN 1 ELSE 255],
      [i \in 1 .. FrameLen - 2 |-> IF i % 2 = 1 THEN Header1 ELSE Header2] }

\* The byte strings of at most MaxGarbage bytes with no header in them.
HasHeader(g) ==
    \E i \in 1 .. Len(g) - 1 : g[i] = Header1 /\ g[i + 1] = Header2
Garbage ==
    {g \in UNION {[1 .. n -> Bytes] : n \in 0 .. MaxGarbage} : ~HasHeader(g)}

\* The sizes of a notification, in bytes.
SliceLens == {1, 8}

RxIdle ==
    UNCHANGED <<detVars, supVars, envVars, histVars, fleetVars, saveVars,
                partVars>>

\* _get_sign_int16, lines 376-380.
get_sign_int16Unsigned(num) == num
get_sign_int16(num) == IF num >= 32768 THEN num - 65536 ELSE num

\* round(x, 3) of the float x = n / d, in thousandths: n / d is a dyadic
\* rational here, held exactly by the float, so round() gives the nearest
\* thousandth and, on a tie, the even one.
RoundHalfEven(n, d) ==
    LET q == n \div d
        r == n % d
    IN  IF 2 * r < d THEN q
        ELSE IF 2 * r > d THEN q + 1
        ELSE IF q % 2 = 0 THEN q ELSE q + 1

\* The names of deviceData in the order of their words, lines 313-323, and
\* the full scale of each, lines 303-311: 16 g, 2000 deg/s, 180 deg.
FieldNames ==
    <<"AccX", "AccY", "AccZ", "AsX", "AsY", "AsZ", "AngX", "AngY", "AngZ">>
FullScale(i) == IF i <= 3 THEN 16 ELSE IF i <= 6 THEN 2000 ELSE 180
\* x / 32768 * FullScale in thousandths is x * ScaleNum / ScaleDen, in lowest
\* terms: 16000 / 32768 = 125 / 256, 2000000 / 32768 = 15625 / 256 and
\* 180000 / 32768 = 5625 / 1024.
ScaleNum(i) == (FullScale(i) * 1000) \div (IF i <= 6 THEN 128 ELSE 32)
ScaleDen(i) == 32768 \div (IF i <= 6 THEN 128 ELSE 32)

\* bytes_data[2i+1] << 8 | bytes_data[2i], for the i-th word counted from 1
\* (sequences are indexed from 1).
WordAt(bytes_data, i) == bytes_data[2 * i] * 256 + bytes_data[2 * i - 1]

\* _process_data, lines 303-323: nine little-endian signed 16-bit words,
\* scaled and rounded to three decimals.  The values are in thousandths
\* (milli-g, millidegrees per second, millidegrees).
ProcessData(bytes_data) ==
    LET value(i) ==
            RoundHalfEven(get_sign_int16(WordAt(bytes_data, i)) * ScaleNum(i),
                          ScaleDen(i))
    IN  [name \in {FieldNames[i] : i \in 1 .. 9} |->
            value(CHOOSE i \in 1 .. 9 : FieldNames[i] = name)]

\* One turn of `for byte_val in raw_bytes`, lines 346-358: tb is TempBytes,
\* out the samples so far.
FeedByteFrameAligned(tb, out, byte_val) ==
    LET t1 == Append(tb, byte_val)
    IN  IF Len(t1) = 2 /\ (t1[1] # Header1 \/ t1[2] # Header2)
        THEN <<<<>>, out>>
        ELSE IF Len(t1) = FrameLen
        THEN <<<<>>, Append(out, ProcessData(SubSeq(t1, 3, FrameLen)))>>
        ELSE <<t1, out>>
FeedByte(tb, out, byte_val) ==
    LET t1 == Append(tb, byte_val)
    IN  IF Len(t1) = 2 /\ (t1[1] # Header1 \/ t1[2] # Header2)
        THEN <<Tail(t1), out>>
        ELSE IF Len(t1) = FrameLen
        THEN <<<<>>, Append(out, ProcessData(SubSeq(t1, 3, FrameLen)))>>
        ELSE <<t1, out>>

\* The whole loop over a slice.
RECURSIVE FeedSlice(_, _, _)
FeedSlice(tb, out, raw_bytes) ==
    IF raw_bytes = <<>> THEN <<tb, out>>
    ELSE LET r == FeedByte(tb, out, Head(raw_bytes))
         IN  FeedSlice(r[1], r[2], Tail(raw_bytes))

\* put_nowait, and on QueueFull get_nowait then put_nowait, lines 286-295.
QueuePutDropNewest(q, item) ==
    IF Len(q) < QueueMaxsize THEN Append(q, item) ELSE q
QueuePut(q, item) ==
    IF Len(q) < QueueMaxsize THEN Append(q, item)
    ELSE Append(Tail(q), item)

\* The link is up and the device starts to send: some bytes with no header
\* in them, then one frame.
RxOpen(g, payload) ==
    /\ stream = <<>>
    /\ stream' = g \o <<Header1, Header2>> \o payload
    /\ UNCHANGED <<sent, slices_in, dropped, raw_data_queue, TempBytes,
                   samples>>
    /\ RxIdle

\* _on_data_received(sender, data) with the next n bytes of the stream.
OnDataReceived(n) ==
    /\ sent < Len(stream)
    /\ Len(raw_data_queue) = QueueMaxsize => Cardinality(dropped) < MaxDropped
    /\ LET last == IF sent + n > Len(stream) THEN Len(stream) ELSE sent + n
           item == [seq |-> slices_in + 1,
                    bytes |-> SubSeq(stream, sent + 1, last)]
       IN  /\ sent' = last
           /\ slices_in' = slices_in + 1
           /\ raw_data_queue' = QueuePut(raw_data_queue, item)
           /\ dropped' = IF Len(raw_data_queue) < QueueMaxsize THEN dropped
                         ELSE dropped \cup {Head(raw_data_queue).seq}
    /\ UNCHANGED <<stream, TempBytes, samples>>
    /\ RxIdle

\* process_data_queue takes a slice and parses it, lines 340-366.
ProcessDataQueue ==
    /\ raw_data_queue # <<>>
    /\ raw_data_queue' = Tail(raw_data_queue)
    /\ LET r == FeedSlice(TempBytes, samples, Head(raw_data_queue).bytes)
       IN  /\ TempBytes' = r[1]
           /\ samples' = r[2]
    /\ UNCHANGED <<stream, sent, slices_in, dropped>>
    /\ RxIdle

NextRx ==
    \/ \E g \in Garbage, payload \in Payloads : RxOpen(g, payload)
    \/ \E n \in SliceLens : OnDataReceived(n)
    \/ ProcessDataQueue

SpecRx == Init /\ [][NextRx]_vars

(***************************************************************************)
(* The receive path on a stream of frames: the device sends one frame      *)
(* after the other, the notifications cut the stream where they will.      *)
(***************************************************************************)

\* The link is up and the device starts to send: two frames.
RxOpenFrames(first, second) ==
    /\ stream = <<>>
    /\ stream' = <<Header1, Header2>> \o first \o <<Header1, Header2>> \o second
    /\ UNCHANGED <<sent, slices_in, dropped, raw_data_queue, TempBytes,
                   samples>>
    /\ RxIdle

NextRxFrames ==
    \/ \E first, second \in Payloads : RxOpenFrames(first, second)
    \/ \E n \in SliceLens : OnDataReceived(n)
    \/ ProcessDataQueue

SpecRxFrames == Init /\ [][NextRxFrames]_vars

(***************************************************************************)
(* The decoder alone: a frame is complete in TempBytes and _process_data   *)
(* is called with its payload (lines 356-358, 300-323).  `stream` holds    *)
(* the frame, `samples` the deviceData the call has left.                  *)
(***************************************************************************)

\* The 16-bit words of the payloads: zero, the smallest steps, a tie of the
\* rounding, half of the full scale, and the ends of the signed range.
DecodeWords == {0, 1, 2, 128, 16384, 32767, 32768, 65535}

\* The payload whose i-th word is w and whose other words are base.
PayloadOf(i, w, base) ==
    [k \in 1 .. FrameLen - 2 |->
        LET word == IF (k + 1) \div 2 = i THEN w ELSE base
        IN  IF k % 2 = 1 THEN word % 256 ELSE word \div 256]
DecodeInputs ==
    {PayloadOf(i, w, base) : i \in 1 .. 9, w \in DecodeWords, base \in {0, 65535}}

\* The 20th byte of a frame has come: _process_data(self.TempBytes[2:]).
DecodeFrame(payload) ==
    /\ stream' = <<Header1, Header2>> \o payload
    /\ samples' = <<ProcessData(payload)>>
    /\ UNCHANGED <<sent, slices_in, dropped, raw_data_queue, TempBytes>>
    /\ RxIdle

NextDec == \E payload \in DecodeInputs : DecodeFrame(payload)

SpecDec == Init /\ [][NextDec]_vars

(***************************************************************************)
(* The ring buffer: CircularBuffer (train_detector_pro.py 28-58), a        *)
(* deque(maxlen=max_seconds * sample_rate) like IMUManager.buffer          *)
(* (train_detector_stable.py 109, 180, 186-192).  An item is <<timestamp,  *)
(* data>>.  A returned list is [alias, items]: a list of its own holds its *)
(* items, an alias of the deque shows what the deque holds.                *)
(***************************************************************************)

BufIdle ==
    UNCHANGED <<detVars, supVars, envVars, histVars, fleetVars, saveVars,
                rxVars, upVars, linkVars, osVars, mgrVars, winVars,
                calVars>>

\* The arguments of the constructor, scaled down from (5, 50).
MaxSeconds == {1, 2}
SampleRates == {1, 2}

\* CircularBuffer.__init__, lines 33-43.
CbInit(max_seconds, sample_rate) ==
    /\ max_size = 0
    /\ max_size' = max_seconds * sample_rate
    /\ cb_buffer' = <<>>
    /\ UNCHANGED <<cb_added, cb_returned, cb_expected>>
    /\ BufIdle

\* CircularBuffer.add(timestamp, data), lines 45-47.
CbAdd(data) ==
    /\ max_size > 0
    /\ Len(cb_added) < MaxAdds
    /\ LET item == <<Len(cb_added) + 1, data>>
       IN  /\ cb_buffer' = DequeAppend(cb_buffer, item, max_size)
           /\ cb_added' = Append(cb_added, item)
    /\ UNCHANGED <<max_size, cb_returned, cb_expected>>
    /\ BufIdle

\* list(self.buffer): a new list.
ListCopy(q) == [alias |-> FALSE, items |-> q]

\* CircularBuffer.get_all, lines 49-51 (IMUManager.get_buffer_data).
CbGetAll ==
    /\ max_size > 0
    /\ cb_returned' = <<ListCopy(cb_buffer)>>
    /\ cb_expected' = cb_buffer
    /\ UNCHANGED <<max_size, cb_buffer, cb_added>>
    /\ BufIdle

\* CircularBuffer.clear, lines 53-55.
CbClear ==
    /\ max_size > 0
    /\ cb_buffer # <<>>
    /\ cb_buffer' = <<>>
    /\ cb_added' = <<>>
    /\ UNCHANGED <<max_size, cb_returned, cb_expected>>
    /\ BufIdle

NextBuf ==
    \/ \E max_seconds \in MaxSeconds, sample_rate \in SampleRates :
          CbInit(max_seconds, sample_rate)
    \/ \E data \in {SampleQuiet, SampleLoudZ} : CbAdd(data)
    \/ CbGetAll
    \/ CbClear

SpecBuf == Init /\ [][NextBuf]_vars

(***************************************************************************)
(* The telemetry: EventUploader (train_detector_stable.py 329-499; its     *)
(* four upload methods have one body) and HealthUploader (lines 612-696),  *)
(* both enabled.  A call is a coroutine: it sends its POST and is          *)
(* suspended until the answer, a timeout or a connection error.  Of an     *)
(* uploader: pc is "idle" or "posting", posts the requests sent by the     *)
(* call in progress or the last one, result how the last call has ended:   *)
(* "none" (no call yet, or one in progress), "None", "True", "False" (the  *)
(* value returned) or "raised".                                            *)
(***************************************************************************)

Uploaders == {"event", "health"}
\* How a request ends: the status of the answer, or the exception raised.
Outcomes == {"200", "500", "TimeoutError", "ClientError"}

UpIdle ==
    UNCHANGED <<detVars, supVars, envVars, histVars, fleetVars, saveVars,
                rxVars, bufVars, linkVars, osVars, mgrVars, winVars,
                calVars>>

\* A call of an upload method up to its POST, lines 359-376 and 639-671.
\* HealthUploader returns True at once while its interval has not elapsed
\* (lines 655-657).
UploadCall(u) ==
    /\ uploader[u].pc = "idle"
    /\ uploader[u].upload_count + uploader[u].upload_failures < MaxUploads
    /\ IF u = "health" /\ ~upload_due
       THEN uploader' = [uploader EXCEPT ![u].posts = 0, ![u].result = "True"]
       ELSE uploader' = [uploader EXCEPT ![u].pc = "posting", ![u].posts = 1,
                                         ![u].result = "none"]
    /\ UNCHANGED upload_due
    /\ UpIdle

\* The request has succeeded, lines 381-383 and 678-682.
RequestDone(who, rec) ==
    [rec EXCEPT !.pc = "idle",
                !.upload_count = @ + 1,
                !.result = IF who = "health" THEN "True" ELSE "None"]

\* The request has failed, lines 384-392 and 683-696: the counter, a log
\* line, and the end of the call.
RequestFailedRetried(who, rec) ==
    IF rec.posts < 2
    THEN [rec EXCEPT !.upload_failures = @ + 1, !.posts = @ + 1]
    ELSE [rec EXCEPT !.pc = "idle", !.upload_failures = @ + 1,
                     !.result = IF who = "health" THEN "False" ELSE "None"]
RequestFailed(who, rec) ==
    [rec EXCEPT !.pc = "idle",
                !.upload_failures = @ + 1,
                !.result = IF who = "health" THEN "False" ELSE "None"]

\* The coroutine resumes with the outcome of its request.
UploadResume(u, outcome) ==
    /\ uploader[u].pc = "posting"
    /\ uploader' = [uploader EXCEPT
                       ![u] = IF outcome = "200" THEN RequestDone(u, @)
                              ELSE RequestFailed(u, @)]
    /\ upload_due' = IF u = "health" /\ outcome = "200" THEN FALSE
                     ELSE upload_due
    /\ UpIdle

\* `interval` seconds have passed since the last health upload.
UploadIntervalElapsed ==
    /\ ~upload_due
    /\ upload_due' = TRUE
    /\ UNCHANGED uploader
    /\ UpIdle

NextUp ==
    \/ \E u \in Uploaders : UploadCall(u)
    \/ \E u \in Uploaders, outcome \in Outcomes : UploadResume(u, outcome)
    \/ UploadIntervalElapsed

SpecUp == Init /\ [][NextUp]_vars

(***************************************************************************)
(* The life of one DeviceModel, step by step (SpecLink): connect up to the *)
(* start of the consumer task, the notifications, the consumer, and        *)
(* _cleanup from one await to the next.  cleanup_pc is "idle" outside      *)
(* _cleanup, "await_task" (await self.data_task, line 229), "stop_notify"  *)
(* (before step 1), "disconnect" (before step 2), "clear" (before step 3). *)
(* link_task is "none" before create_task, "running", "cancelling" (cancel *)
(* has been called and the task has not run since), "done".  The manager   *)
(* builds a new DeviceModel for every connect, lines 136 and 267.          *)
(***************************************************************************)

LinkIdle ==
    UNCHANGED <<detVars, supVars, envVars, histVars, fleetVars, saveVars,
                rxVars, bufVars, upVars, osVars, mgrVars, winVars, calVars>>

\* How connect ends its steps 1 to 5: the connection times out (state
\* CONNECTING, no link), start_notify raises (state DISCOVERING, the link is
\* up), or the notifications start and the consumer task is created.
ConnectOutcomes == {"timeout", "notify_failed", "notifying"}

\* Step 0 of _cleanup, lines 226-231, up to its await: what becomes of
\* data_task and where _cleanup goes on.
CleanupBeginNoCancel(task) == [task |-> task, pc |-> "stop_notify"]
CleanupBegin(task) ==
    IF task = "running"
    THEN [task |-> "cancelling", pc |-> "await_task"]
    ELSE [task |-> task, pc |-> "stop_notify"]

\* IMUManager.connect builds a DeviceModel and calls its connect, lines
\* 136-139 and 81-160; a failure calls _cleanup (lines 112, 154).
DmConnect(outcome) ==
    /\ cleanup_pc = "idle"
    /\ link_state \in {"disconnected", "connecting"}
    /\ link_task # "running"
    /\ sessions < MaxSessions
    /\ sessions' = sessions + 1
    /\ queued' = 0
    /\ link_closed' = FALSE
    /\ link_first_data' = FALSE
    /\ client_connected' = (outcome # "timeout")
    /\ notify_on' = (outcome = "notifying")
    /\ link_state' = IF outcome = "timeout" THEN "connecting"
                     ELSE "discovering"
    /\ IF outcome = "notifying"
       THEN /\ link_task' = "running"
            /\ UNCHANGED cleanup_pc
       ELSE /\ link_task' = CleanupBegin("none").task
            /\ cleanup_pc' = CleanupBegin("none").pc
    /\ UNCHANGED parsed
    /\ LinkIdle

\* The wait of connect sees first_data_received, lines 163-173.
DmReady ==
    /\ cleanup_pc = "idle"
    /\ link_state = "discovering"
    /\ link_first_data
    /\ link_state' = "ready"
    /\ UNCHANGED <<link_task, client_connected, notify_on, cleanup_pc, queued,
                   parsed, link_closed, link_first_data, sessions>>
    /\ LinkIdle

\* FIRST_DATA_TIMEOUT has passed, lines 165-167, or the manager disconnects
\* a device, ready or after a failed connect (lines 211-219): _cleanup
\* begins.
DmCleanup ==
    /\ cleanup_pc = "idle"
    /\ sessions > 0
    /\ \/ link_state = "discovering" /\ ~link_first_data
       \/ link_state \in {"ready", "disconnected", "connecting"}
    /\ link_task' = CleanupBegin(link_task).task
    /\ cleanup_pc' = CleanupBegin(link_task).pc
    /\ UNCHANGED <<link_state, client_connected, notify_on, queued, parsed,
                   link_closed, link_first_data, sessions>>
    /\ LinkIdle

\* The device goes away by itself.
DmLost ==
    /\ client_connected
    /\ client_connected' = FALSE
    /\ notify_on' = FALSE
    /\ UNCHANGED <<link_state, link_task, cleanup_pc, queued, parsed,
                   link_closed, link_first_data, sessions>>
    /\ LinkIdle

\* _on_data_received, lines 275-298: a notification of the live link.
DmNotify ==
    /\ client_connected
    /\ notify_on
    /\ queued' = IF queued < QueueMaxsize THEN queued + 1 ELSE queued
    /\ UNCHANGED <<link_state, link_task, client_connected, notify_on,
                   cleanup_pc, parsed, link_closed, link_first_data, sessions>>
    /\ LinkIdle

\* One turn of process_data_queue that gets a slice, lines 338-363: the
\* slice is parsed, the callback of the detector called.
DmConsume ==
    /\ link_task = "running"
    /\ queued > 0
    /\ parsed < MaxParsed
    /\ queued' = queued - 1
    /\ parsed' = parsed + 1
    /\ link_first_data' = TRUE
    /\ UNCHANGED <<link_state, link_task, client_connected, notify_on,
                   cleanup_pc, link_closed, sessions>>
    /\ LinkIdle

\* The cancelled consumer runs again.  CancelledError is raised at its await
\* (line 341) and ends it; or, where asyncio.wait_for returns the result of
\* a get that was already done when the cancellation came (Python up to
\* 3.11), the slice is parsed and the loop goes on.
ConsumerCancelled(swallowed) ==
    /\ link_task = "cancelling"
    /\ IF swallowed
       THEN /\ queued > 0
            /\ parsed < MaxParsed
            /\ queued' = queued - 1
            /\ parsed' = parsed + 1
            /\ link_first_data' = TRUE
            /\ link_task' = "running"
       ELSE /\ link_task' = "done"
            /\ UNCHANGED <<queued, parsed, link_first_data>>
    /\ UNCHANGED <<link_state, client_connected, notify_on, cleanup_pc,
                   link_closed, sessions>>
    /\ LinkIdle

\* await self.data_task returns, lines 228-231.
CleanupAwaitReturn ==
    /\ cleanup_pc = "await_task"
    /\ link_task = "done"
    /\ cleanup_pc' = "stop_notify"
    /\ UNCHANGED <<link_state, link_task, client_connected, notify_on, queued,
                   parsed, link_closed, link_first_data, sessions>>
    /\ LinkIdle

\* Step 1, lines 233-242: stop_notify within 2 s, or an error that is logged.
CleanupStopNotify(ok) ==
    /\ cleanup_pc = "stop_notify"
    /\ cleanup_pc' = "disconnect"
    /\ notify_on' = IF client_connected /\ ok THEN FALSE ELSE notify_on
    /\ UNCHANGED <<link_state, link_task, client_connected, queued, parsed,
                   link_closed, link_first_data, sessions>>
    /\ LinkIdle

\* Step 2, lines 244-253: disconnect within 2 s, or an error that is logged.
CleanupDisconnect(ok) ==
    /\ cleanup_pc = "disconnect"
    /\ cleanup_pc' = "clear"
    /\ IF client_connected /\ ok
       THEN /\ client_connected' = FALSE
            /\ notify_on' = FALSE
       ELSE UNCHANGED <<client_connected, notify_on>>
    /\ link_closed' = ~client_connected'
    /\ UNCHANGED <<link_state, link_task, queued, parsed, link_first_data,
                   sessions>>
    /\ LinkIdle

\* Step 3, lines 255-273: the references are dropped, the queue is emptied,
\* the state migrates, first_data_received is reset.
CleanupClear ==
    /\ cleanup_pc = "clear"
    /\ cleanup_pc' = "idle"
    /\ queued' = 0
    /\ link_state' = CleanupState(link_state)
    /\ link_first_data' = FALSE
    /\ UNCHANGED <<link_task, client_connected, notify_on, parsed, link_closed,
                   sessions>>
    /\ LinkIdle

NextLink ==
    \/ \E outcome \in ConnectOutcomes : DmConnect(outcome)
    \/ DmReady
    \/ DmCleanup
    \/ DmLost
    \/ DmNotify
    \/ DmConsume
    \/ \E swallowed \in BOOLEAN : ConsumerCancelled(swallowed)
    \/ CleanupAwaitReturn
    \/ \E ok \in BOOLEAN : CleanupStopNotify(ok)
    \/ \E ok \in BOOLEAN : CleanupDisconnect(ok)
    \/ CleanupClear

SpecLink == Init /\ [][NextLink]_vars

(***************************************************************************)
(* The OS-level recovery (SpecOs): the rounds of run for one supervisor    *)
(* and _os_level_ble_cleanup from one await to the next.  os_pc is "loop"  *)
(* (the sleep of a round), "pause_wait" (the sleep of 2 s after the flag   *)
(* is set), "hard_cooldown" (the sleep of 10 s after a reset that          *)
(* succeeded), "resume_wait" (the sleep of 5 s of the finally clause),     *)
(* "stabilize" (the sleep of 3 s of run), "connect" (inside imu.connect).  *)
(* The result of should_trigger_os_cleanup is an input of a round: with    *)
(* max_consecutive_failures configured as 0 it is true for every device    *)
(* that has a DeviceModel (lines 87 and 303).  Time is left out: a         *)
(* cooldown is a flag that the passing of time clears.                     *)
(***************************************************************************)

OsIdle ==
    UNCHANGED <<detVars, supVars, envVars, histVars, fleetVars, saveVars,
                rxVars, bufVars, upVars, linkVars, mgrVars, winVars,
                calVars>>

\* How subprocess.run ends: the exit status of the command, or the
\* exception raised.
CommandOutcomes == {"ok", "nonzero", "timeout", "not_found", "error"}

\* self.ble_operations_paused after the finally clause, lines 984-989.
PausedKept(paused) == paused
PausedAtResume(paused) == FALSE

\* A round of run, lines 1735-1825: the paused flag skips the checks; a
\* health check of the supervisor, then the test of the escalation, the
\* global cooldown (lines 1811-1817) and in _os_level_ble_cleanup the
\* cooldown of the address (lines 915-923, and line 1838 after its return),
\* or the flag is set and the wait of 2 s begins (lines 931-934).
OsRound(check, trigger) ==
    /\ os_pc = "loop"
    /\ IF ble_operations_paused \/ ~check
       THEN UNCHANGED osVars
       ELSE /\ os_checks < MaxOsChecks
            /\ os_checks' = os_checks + 1
            /\ IF ~trigger \/ global_cooldown
               THEN UNCHANGED <<os_pc, ble_operations_paused, os_success,
                                soft_outcome, hard_attempted, global_cooldown,
                                mac_cooldown, os_runs, os_connects>>
               ELSE IF mac_cooldown
               THEN /\ global_cooldown' = TRUE
                    /\ UNCHANGED <<os_pc, ble_operations_paused, os_success,
                                   soft_outcome, hard_attempted, mac_cooldown,
                                   os_runs, os_connects>>
               ELSE /\ os_runs < MaxOsRuns
                    /\ os_runs' = os_runs + 1
                    /\ ble_operations_paused' = TRUE
                    /\ os_pc' = "pause_wait"
                    /\ os_success' = FALSE
                    /\ soft_outcome' = "none"
                    /\ hard_attempted' = FALSE
                    /\ UNCHANGED <<global_cooldown, mac_cooldown, os_connects>>
    /\ OsIdle

\* The try clause, lines 938-982: bluetoothctl remove, and after a non-zero
\* exit status hciconfig reset; an exception of either leaves the clause.
\* subprocess.run does not give the event loop back: one step.
OsCommands(soft, hard) ==
    /\ os_pc = "pause_wait"
    /\ (hard = "none") = (soft # "nonzero")
    /\ soft_outcome' = soft
    /\ hard_attempted' = (soft = "nonzero")
    /\ os_success' = (soft = "ok" \/ (soft = "nonzero" /\ hard = "ok"))
    /\ os_pc' = IF soft = "nonzero" /\ hard = "ok" THEN "hard_cooldown"
                ELSE "resume_wait"
    /\ UNCHANGED <<ble_operations_paused, global_cooldown, mac_cooldown,
                   os_runs, os_checks, os_connects>>
    /\ OsIdle

\* The sleep of 10 s after a reset is over, line 972.
OsHardCooldownDone ==
    /\ os_pc = "hard_cooldown"
    /\ os_pc' = "resume_wait"
    /\ UNCHANGED <<ble_operations_paused, os_success, soft_outcome,
                   hard_attempted, global_cooldown, mac_cooldown, os_runs,
                   os_checks, os_connects>>
    /\ OsIdle

\* The sleep of 5 s is over: the flag is cleared, the history written after
\* a success (lines 986-1005); back in run the global time is written, and
\* after a success the counter is reset and the wait of 3 s begins, else the
\* round ends (lines 1838-1853).
OsResume ==
    /\ os_pc = "resume_wait"
    /\ ble_operations_paused' = PausedAtResume(ble_operations_paused)
    /\ mac_cooldown' = (os_success \/ mac_cooldown)
    /\ global_cooldown' = TRUE
    /\ os_pc' = IF os_success THEN "stabilize" ELSE "loop"
    /\ UNCHANGED <<os_success, soft_outcome, hard_attempted, os_runs,
                   os_checks, os_connects>>
    /\ OsIdle

\* The wait of 3 s is over: imu.connect() is called, lines 1847-1850.
OsStabilized ==
    /\ os_pc = "stabilize"
    /\ os_pc' = "connect"
    /\ os_connects' = os_connects + 1
    /\ UNCHANGED <<ble_operations_paused, os_success, soft_outcome,
                   hard_attempted, global_cooldown, mac_cooldown, os_runs,
                   os_checks>>
    /\ OsIdle

\* imu.connect() has returned; break, line 1853.
OsConnectReturn ==
    /\ os_pc = "connect"
    /\ os_pc' = "loop"
    /\ UNCHANGED <<ble_operations_paused, os_success, soft_outcome,
                   hard_attempted, global_cooldown, mac_cooldown, os_runs,
                   os_checks, os_connects>>
    /\ OsIdle

\* Time passes: the global cooldown (300 s) is over, and after it the
\* cooldown of the address (600 s).
OsCooldownOver ==
    /\ global_cooldown \/ mac_cooldown
    /\ IF global_cooldown
       THEN global_cooldown' = FALSE /\ UNCHANGED mac_cooldown
       ELSE mac_cooldown' = FALSE /\ UNCHANGED global_cooldown
    /\ UNCHANGED <<os_pc, ble_operations_paused, os_success, soft_outcome,
                   hard_attempted, os_runs, os_checks, os_connects>>
    /\ OsIdle

NextOs ==
    \/ \E check, trigger \in BOOLEAN : OsRound(check, trigger)
    \/ \E soft \in CommandOutcomes, hard \in CommandOutcomes \cup {"none"} :
          OsCommands(soft, hard)
    \/ OsHardCooldownDone
    \/ OsResume
    \/ OsStabilized
    \/ OsConnectReturn
    \/ OsCooldownOver

SpecOs == Init /\ [][NextOs]_vars

(***************************************************************************)
(* One IMUManager and the tasks that call it (SpecMgr).  In the program    *)
(* the main coroutine is the only caller (lines 1047, 1787, 1850); here    *)
(* two tasks call connect and check_and_reconnect at any time, which is    *)
(* what the lock and the flag are for.  call_pc[c] is "idle", "connect"    *)
(* (await self.device.connect(), line 139), "fail_disconnect" (await       *)
(* self.disconnect(), line 158), "rc_disconnect" (line 257), "rc_sleep"    *)
(* (line 260), "rc_connect" (line 271), "rc_fail_disconnect" (line 285).   *)
(* Whether connection_attempts has passed max_retries is an input.         *)
(***************************************************************************)

MgrIdle ==
    UNCHANGED <<detVars, supVars, envVars, histVars, fleetVars, saveVars,
                rxVars, bufVars, upVars, linkVars, osVars, winVars,
                calVars>>

Callers == 1 .. 2

\* self._connection_lock.locked(), lines 122 and 217.
LockedNever(lock) == FALSE
Locked(lock) == lock # 0

\* IMUManager.connect up to its first await, lines 115-139.
MgrConnect(c, retries_left) ==
    /\ call_pc[c] = "idle"
    /\ mgr_calls < MaxCalls
    /\ mgr_calls' = mgr_calls + 1
    /\ IF Locked(connection_lock)
       THEN /\ mgr_rejects' = mgr_rejects + 1
            /\ UNCHANGED <<connection_lock, mgr_reconnecting, mgr_is_ready,
                           mgr_device, devices_made, call_pc>>
       ELSE IF ~retries_left
       THEN UNCHANGED <<connection_lock, mgr_reconnecting, mgr_is_ready,
                        mgr_device, devices_made, call_pc, mgr_rejects>>
       ELSE /\ connection_lock' = c
            /\ mgr_device' = TRUE
            /\ devices_made' = devices_made + 1
            /\ call_pc' = [call_pc EXCEPT ![c] = "connect"]
            /\ UNCHANGED <<mgr_reconnecting, mgr_is_ready, mgr_rejects>>
    /\ MgrIdle

\* device.connect() has returned, in connect (lines 141-158) or in
\* check_and_reconnect (lines 273-285): ready and the call returns, or
\* disconnect begins.
MgrConnectReturn(c, success) ==
    /\ call_pc[c] \in {"connect", "rc_connect"}
    /\ IF success
       THEN /\ mgr_is_ready' = TRUE
            /\ connection_lock' = 0
            /\ mgr_reconnecting' = IF call_pc[c] = "rc_connect" THEN FALSE
                                   ELSE mgr_reconnecting
            /\ call_pc' = [call_pc EXCEPT ![c] = "idle"]
       ELSE /\ mgr_is_ready' = FALSE
            /\ call_pc' = [call_pc EXCEPT ![c] =
                              IF @ = "connect" THEN "fail_disconnect"
                              ELSE "rc_fail_disconnect"]
            /\ UNCHANGED <<connection_lock, mgr_reconnecting>>
    /\ UNCHANGED <<mgr_device, devices_made, mgr_calls, mgr_rejects>>
    /\ MgrIdle

\* The disconnect after a failure has returned (lines 161-169): the call
\* returns False, the lock is released, and the finally clause of
\* check_and_reconnect clears the flag (line 292).
MgrFailReturn(c) ==
    /\ call_pc[c] \in {"fail_disconnect", "rc_fail_disconnect"}
    /\ mgr_device' = FALSE
    /\ connection_lock' = 0
    /\ mgr_reconnecting' = IF call_pc[c] = "rc_fail_disconnect" THEN FALSE
                           ELSE mgr_reconnecting
    /\ call_pc' = [call_pc EXCEPT ![c] = "idle"]
    /\ UNCHANGED <<mgr_is_ready, devices_made, mgr_calls, mgr_rejects>>
    /\ MgrIdle

\* check_and_reconnect up to its first await, lines 194-257: the flag, the
\* lock, the interval, the state, the health check, and for an unhealthy
\* device the flag, the lock and the disconnect.
MgrCheck(c, due, healthy) ==
    /\ call_pc[c] = "idle"
    /\ mgr_calls < MaxCalls
    /\ mgr_calls' = mgr_calls + 1
    /\ IF mgr_reconnecting \/ Locked(connection_lock)
       THEN /\ mgr_rejects' = mgr_rejects + 1
            /\ UNCHANGED <<connection_lock, mgr_reconnecting, mgr_is_ready,
                           mgr_device, devices_made, call_pc>>
       ELSE IF ~due \/ ~mgr_is_ready \/ ~mgr_device
       THEN UNCHANGED <<connection_lock, mgr_reconnecting, mgr_is_ready,
                        mgr_device, devices_made, call_pc, mgr_rejects>>
       ELSE IF healthy
       THEN /\ mgr_reconnecting' = FALSE
            /\ UNCHANGED <<connection_lock, mgr_is_ready, mgr_device,
                           devices_made, call_pc, mgr_rejects>>
       ELSE /\ mgr_reconnecting' = TRUE
            /\ connection_lock' = c
            /\ mgr_is_ready' = FALSE
            /\ call_pc' = [call_pc EXCEPT ![c] = "rc_disconnect"]
            /\ UNCHANGED <<mgr_device, devices_made, mgr_rejects>>
    /\ MgrIdle

\* The disconnect of step 1 has returned: the device is dropped and the
\* sleep of 2 s begins, lines 257-260.
MgrRcDisconnected(c) ==
    /\ call_pc[c] = "rc_disconnect"
    /\ mgr_device' = FALSE
    /\ call_pc' = [call_pc EXCEPT ![c] = "rc_sleep"]
    /\ UNCHANGED <<connection_lock, mgr_reconnecting, mgr_is_ready,
                   devices_made, mgr_calls, mgr_rejects>>
    /\ MgrIdle

\* The sleep is over, lines 262-271: max retries reached and the call
\* returns False, or a new DeviceModel and its connect.
MgrRcSlept(c, retries_left) ==
    /\ call_pc[c] = "rc_sleep"
    /\ IF retries_left
       THEN /\ mgr_device' = TRUE
            /\ devices_made' = devices_made + 1
            /\ call_pc' = [call_pc EXCEPT ![c] = "rc_connect"]
            /\ UNCHANGED <<connection_lock, mgr_reconnecting>>
       ELSE /\ connection_lock' = 0
            /\ mgr_reconnecting' = FALSE
            /\ call_pc' = [call_pc EXCEPT ![c] = "idle"]
            /\ UNCHANGED <<mgr_device, devices_made>>
    /\ UNCHANGED <<mgr_is_ready, mgr_calls, mgr_rejects>>
    /\ MgrIdle

NextMgr ==
    \/ \E c \in Callers, retries_left \in BOOLEAN : MgrConnect(c, retries_left)
    \/ \E c \in Callers, success \in BOOLEAN : MgrConnectReturn(c, success)
    \/ \E c \in Callers : MgrFailReturn(c)
    \/ \E c \in Callers, due, healthy \in BOOLEAN : MgrCheck(c, due, healthy)
    \/ \E c \in Callers : MgrRcDisconnected(c)
    \/ \E c \in Callers, retries_left \in BOOLEAN : MgrRcSlept(c, retries_left)

SpecMgr == Init /\ [][NextMgr]_vars

(***************************************************************************)
(* The sliding window of health checks.  SpecWin: update_health_window and *)
(* check_sliding_window_health are called at any time (IMUManager calls    *)
(* them at a poll, get_health_stats calls the check at an upload).         *)
(* SpecPoll: they are called by the polls of check_and_reconnect only,     *)
(* which its interval guard keeps health_check_interval apart.  Time       *)
(* passes in seconds; an entry holds its age, counted up to                *)
(* window_horizon + 1.                                                     *)
(***************************************************************************)

WinIdle ==
    UNCHANGED <<detVars, supVars, envVars, histVars, fleetVars, saveVars,
                rxVars, bufVars, upVars, linkVars, osVars, mgrVars,
                calVars>>

\* unhealthy_percentage >= self.trigger_percentage, lines 486 and 494, for
\* (unhealthy_count / total_count) * 100 of the floats: with the percentage
\* 70 and up to 50 checks the float comparison agrees with the exact one.
ExceedsTrigger(unhealthy_count, total_count) ==
    100 * unhealthy_count > trigger_percentage * total_count
ReachesTrigger(unhealthy_count, total_count) ==
    100 * unhealthy_count >= trigger_percentage * total_count

\* check_sliding_window_health, lines 463-499: is_healthy of its result.
check_sliding_window_health(window) ==
    IF Len(window) = 0 THEN TRUE
    ELSE LET recent_checks ==
                 SelectSeq(window, LAMBDA check : check.age <= window_horizon)
             unhealthy_count ==
                 Len(SelectSeq(recent_checks, LAMBDA check : ~check.healthy))
             total_count == Len(recent_checks)
         IN  IF total_count = 0 THEN TRUE
             ELSE ~ReachesTrigger(unhealthy_count, total_count)

\* update_health_window, lines 450-461.
update_health_window(window, is_healthy) ==
    DequeAppend(window, [age |-> 0, healthy |-> is_healthy],
                sliding_window_size)

\* A second passes.
WinTick ==
    /\ \/ since_poll < health_check_interval
       \/ \E i \in 1 .. Len(health_window) :
             health_window[i].age <= window_horizon
    /\ health_window' =
           [i \in 1 .. Len(health_window) |->
               [health_window[i] EXCEPT
                   !.age = Older(@, window_horizon + 1)]]
    /\ since_poll' = Older(since_poll, health_check_interval)
    /\ win_fresh' = FALSE
    /\ UNCHANGED <<window_healthy, poll_is_healthy>>
    /\ WinIdle

\* A call of update_health_window.
WinUpdate(is_healthy) ==
    /\ health_window' = update_health_window(health_window, is_healthy)
    /\ win_fresh' = FALSE
    /\ UNCHANGED <<since_poll, window_healthy, poll_is_healthy>>
    /\ WinIdle

\* A call of check_sliding_window_health.
WinCheck ==
    /\ ~win_fresh
    /\ win_fresh' = TRUE
    /\ window_healthy' = check_sliding_window_health(health_window)
    /\ UNCHANGED <<health_window, since_poll, poll_is_healthy>>
    /\ WinIdle

NextWin ==
    \/ WinTick
    \/ \E is_healthy \in BOOLEAN : WinUpdate(is_healthy)
    \/ WinCheck

SpecWin == Init /\ [][NextWin]_vars

\* The interval guard of check_and_reconnect, lines 220-222.
PollDueAlways(age) == TRUE
PollDue(age) == age >= health_check_interval

\* A poll of check_and_reconnect that passes its guards, lines 220-245:
\* check_health gives is_healthy, the window is updated and checked.
Poll(is_healthy) ==
    /\ PollDue(since_poll)
    /\ since_poll' = 0
    /\ poll_is_healthy' = is_healthy
    /\ health_window' = update_health_window(health_window, is_healthy)
    /\ window_healthy' = check_sliding_window_health(health_window')
    /\ win_fresh' = TRUE
    /\ WinIdle

NextPoll ==
    \/ WinTick
    \/ \E is_healthy \in BOOLEAN : Poll(is_healthy)

SpecPoll == Init /\ [][NextPoll]_vars

(***************************************************************************)
(* The periodic calibration in real time (SpecCal): the rounds of run that *)
(* find it due, and _perform_calibration from its vibration check to its   *)
(* return.  The clock is in seconds and advances by steps of several       *)
(* sizes; the check of 1 s and the collection take their time.  The        *)
(* samples of a device are n values that alternate between lo and hi       *)
(* (milli-g); keys are the devices that are ready.                         *)
(***************************************************************************)

CalIdle ==
    UNCHANGED <<detVars, supVars, envVars, histVars, fleetVars, saveVars,
                rxVars, bufVars, upVars, linkVars, osVars, mgrVars, winVars>>

\* The steps of the clock.
CalSteps == {1, retry_delay - 2, calibration_interval - retry_delay - 2}

SamplePatterns ==
    {[n |-> n, lo |-> lo, hi |-> hi] :
        n \in {min_check_samples - 1, min_check_samples},
        lo \in {600, 1000}, hi \in {1000, 1400}}
CheckSamples == [Devices -> SamplePatterns]

\* sum(samples) and the sum of the squares of a pattern.
PatternSum(p) == ((p.n + 1) \div 2) * p.lo + (p.n \div 2) * p.hi
PatternSumSq(p) ==
    ((p.n + 1) \div 2) * p.lo * p.lo + (p.n \div 2) * p.hi * p.hi

\* std_dev > self.calibration_vibration_threshold, lines 1128-1133: the
\* variance of the samples against the square of the threshold, times n * n.
Vibrating(p) ==
    p.n * PatternSumSq(p) - PatternSum(p) * PatternSum(p)
        > calibration_vibration_threshold * calibration_vibration_threshold
              * p.n * p.n

\* The loop over vibration_check_samples, lines 1118-1139: some ready device
\* has too few samples or vibrates.
CalibrationRejected(keys, check_samples) ==
    \E n \in keys :
        \/ check_samples[n].n < min_check_samples
        \/ Vibrating(check_samples[n])

\* last_calibration_time after a rejected run, lines 1124 and 1137.
RetryTimeFull(current_time) == current_time
RetryTime(current_time) == current_time - (calibration_interval - retry_delay)

\* The test of run, lines 1740-1742 (in seconds).
CalibrationDue(current_time) ==
    /\ last_calibration_time > 0
    /\ current_time - last_calibration_time >= calibration_interval

\* start calls _perform_calibration (line 1071), or a round of run finds it
\* due (lines 1740-1747): calibrating is set and the check begins.
CalBegin ==
    /\ cal_run = "idle"
    /\ last_calibration_time = 0 \/ CalibrationDue(cal_now)
    /\ cal_run' = "check"
    /\ cal_current_time' = cal_now
    /\ UNCHANGED <<cal_now, cal_ticks, last_calibration_time, cal_offset,
                   cal_window, cal_rejected>>
    /\ CalIdle

\* The check of 1 s is over, lines 1107-1141: the run is rejected and
\* returns, or goes on to collect.
CalCheckDone(keys, check_samples) ==
    /\ cal_run = "check"
    /\ cal_now' = cal_now + 1
    /\ IF CalibrationRejected(keys, check_samples)
       THEN /\ last_calibration_time' = RetryTime(cal_current_time)
            /\ cal_run' = "idle"
            /\ cal_rejected' = TRUE
       ELSE /\ cal_run' = "collect"
            /\ UNCHANGED <<last_calibration_time, cal_rejected>>
    /\ UNCHANGED <<cal_ticks, cal_current_time, cal_offset, cal_window>>
    /\ CalIdle

\* The collection is over, lines 1143-1199: the offsets of the devices in
\* keys are stored, the stop windows replaced, the time of the run stored.
CalCommitted(keys, offs) ==
    /\ cal_run = "collect"
    /\ cal_now' = cal_now + 2
    /\ cal_offset' = [n \in Devices |->
                         IF n \in keys THEN offs[n] ELSE cal_offset[n]]
    /\ cal_window' = [n \in Devices |-> 0]
    /\ last_calibration_time' = cal_current_time
    /\ cal_run' = "idle"
    /\ cal_rejected' = FALSE
    /\ UNCHANGED <<cal_ticks, cal_current_time>>
    /\ CalIdle

\* A sample of a recording reaches the stop window of a device (line 1268).
CalStopSample(n) ==
    /\ cal_window[n] < stop_window_size
    /\ cal_window' = [cal_window EXCEPT ![n] = @ + 1]
    /\ UNCHANGED <<cal_now, cal_ticks, last_calibration_time, cal_run,
                   cal_current_time, cal_offset, cal_rejected>>
    /\ CalIdle

\* Time passes between two rounds of run in which no calibration is due.
CalTick(dt) ==
    /\ cal_run = "idle"
    /\ last_calibration_time > 0
    /\ ~CalibrationDue(cal_now)
    /\ cal_ticks < MaxCalTicks
    /\ cal_ticks' = cal_ticks + 1
    /\ cal_now' = cal_now + dt
    /\ UNCHANGED <<last_calibration_time, cal_run, cal_current_time,
                   cal_offset, cal_window, cal_rejected>>
    /\ CalIdle

NextCal ==
    \/ CalBegin
    \/ \E keys \in SUBSET Devices, check_samples \in CheckSamples :
          CalCheckDone(keys, check_samples)
    \/ \E keys \in SUBSET Devices, offs \in [Devices -> {990, 1010}] :
          CalCommitted(keys, offs)
    \/ \E n \in Devices : CalStopSample(n)
    \/ \E dt \in CalSteps : CalTick(dt)

SpecCal == Init /\ [][NextCal]_vars

(***************************************************************************)
(* Properties of the detector.                                             *)
(***************************************************************************)

\* The samples of device d passed to _data_callback since the trigger.
DeliveredAll(d) == [i \in 1 .. Len(delivered[d]) |-> delivered[d][i].data]
DeliveredWhileRunning(d) ==
    LET q == SelectSeq(delivered[d], LAMBDA e : e.running)
    IN  [i \in 1 .. Len(q) |-> q[i].data]

\* C1: while the detector is recording, a sample of any device whose
\* |AccZ - bias| exceeds the trigger threshold starts no new session: it
\* leaves recording, trigger_time, trigger_device and event_id as they are
\* and does not reset event_data, which at most grows by that sample.
C1_NoSecondSession ==
    [][\A d \in Devices, s \in Samples :
          (/\ recording
           /\ Abs(s.AccZ - z_axis_offset[d]) > threshold
           /\ FrameParsed(d, s))
          => /\ recording'
             /\ trigger_time' = trigger_time
             /\ trigger_device' = trigger_device
             /\ event_id' = event_id
             /\ event_data' = IF running
                              THEN [event_data EXCEPT ![d] = Append(@, s)]
                              ELSE event_data]_vars

\* C1, its case: a sample over the threshold has been delivered to the
\* running detector in the middle of a session.
C1_Witness ==
    /\ recording
    /\ \E d \in Devices :
          /\ delivered[d] # <<>>
          /\ delivered[d][Len(delivered[d])].running
          /\ Abs(delivered[d][Len(delivered[d])].data.AccZ - z_axis_offset[d])
                 > threshold
          /\ event_data[d] = preroll[d] \o DeliveredAll(d)

\* C2: while the detector is running and idle, a sample of device d starts
\* a recording if and only if |AccZ - bias[d]| > threshold, strictly, the
\* bias being 0 until d is calibrated; AccX and AccY play no part; and the
\* trigger stores d and the time of the sample.
C2_TriggerIffZOverThreshold ==
    [][\A d \in Devices, s \in Samples :
          (running /\ ~recording /\ FrameParsed(d, s))
          => /\ recording' <=> (Abs(s.AccZ - z_axis_offset[d]) > threshold)
             /\ recording' => (trigger_device' = d /\ trigger_time' = now)]_vars

\* C2, its case: a calibrated device has just triggered a recording.
C2_Witness ==
    /\ running
    /\ recording
    /\ trigger_device \in Devices
    /\ z_axis_offset[trigger_device] # 0
    /\ delivered = NoData
    /\ trigger_time = now

C5_EndsByHardCap ==
    (recording /\ now - trigger_time >= max_record_seconds) ~> ~recording

\* C6 as claimed: the quiescence stop (a stop before the cap) is decided
\* only when every ready device has delivered at least stop_window_size
\* samples since the trigger.
C6_StopNeedsFullWindows ==
    [][\A d \in Devices, s \in Samples :
          (/\ running /\ recording
           /\ FrameParsed(d, s)
           /\ end_tasks' > end_tasks
           /\ now - trigger_time < max_record_seconds)
          => \A n \in Devices :
                is_ready[n] => Len(delivered'[n]) >= stop_window_size]_vars

\* C6 as the code has it: a sample delivered during a recording pushes its
\* calibrated |Z| into the window of its device, which keeps the last
\* stop_window_size values at most, and the end of the recording is
\* scheduled if and only if max_record_seconds have elapsed or some device
\* is ready and the window of every ready device is non-empty, full or
\* not, with all its values below stop_threshold_z.
C6_StopDecision ==
    [][\A d \in Devices, s \in Samples :
          (running /\ recording /\ FrameParsed(d, s))
          => /\ LET w == Append(z_stop_windows[d], Abs(s.AccZ - z_axis_offset[d]))
                    k == IF Len(w) > stop_window_size
                         THEN Len(w) - stop_window_size + 1 ELSE 1
                IN  z_stop_windows'[d] = SubSeq(w, k, Len(w))
             /\ end_tasks' \in {end_tasks, end_tasks + 1}
             /\ end_tasks' = end_tasks + 1 <=>
                   \/ now - trigger_time >= max_record_seconds
                   \/ /\ \E n \in Devices : is_ready[n]
                      /\ \A n \in Devices : is_ready[n] =>
                            /\ z_stop_windows'[n] # <<>>
                            /\ \A i \in 1 .. Len(z_stop_windows'[n]) :
                                  z_stop_windows'[n][i] < stop_threshold_z]_vars

\* C6, its case: the end of a recording has been scheduled before the cap
\* on the strength of a window that is not full.
C6_Witness ==
    /\ recording
    /\ end_tasks > 0
    /\ now - trigger_time < max_record_seconds
    /\ \E n \in Devices :
          /\ is_ready[n]
          /\ z_stop_windows[n] # <<>>
          /\ Len(z_stop_windows[n]) < stop_window_size

\* C28: _check_stop_condition returns true if and only if at least one
\* device is ready and the stop window of every ready device is non-empty
\* with its maximum strictly below stop_threshold_z; the windows of the
\* devices that are not ready play no part, and with no ready device it
\* returns false.  (Before the cap a sample of a recording creates the
\* _end_recording task exactly when the function returns true.)
C28_StopConditionOfReadyDevices ==
    [][\A d \in Devices, s \in Samples :
          (/\ running /\ recording
           /\ now - trigger_time < max_record_seconds
           /\ FrameParsed(d, s))
          => LET ready == {n \in Devices : is_ready[n]}
                 quiet(n) == /\ Len(z_stop_windows'[n]) > 0
                             /\ \A i \in 1 .. Len(z_stop_windows'[n]) :
                                   z_stop_windows'[n][i] < stop_threshold_z
             IN  /\ (end_tasks' = end_tasks + 1)
                       <=> (ready # {} /\ \A n \in ready : quiet(n))
                 /\ ready = {} => end_tasks' = end_tasks]_vars

\* C28, its case: the function has returned true while the window of a
\* device that is not ready holds a value over stop_threshold_z.
C28_Witness ==
    /\ recording
    /\ end_tasks > 0
    /\ stale_tasks = 0
    /\ now - trigger_time < max_record_seconds
    /\ \E n \in Devices :
          /\ ~is_ready[n]
          /\ z_stop_windows[n] # <<>>
          /\ SeqMax(z_stop_windows[n]) >= stop_threshold_z

(***************************************************************************)
(* Properties of the fleet.                                                *)
(***************************************************************************)

\* Device d is in a connect phase: inside DeviceModel.connect, or inside the
\* disconnect, delay and connect of check_and_reconnect.
InConnectPhase(d) ==
    \/ reconnecting[d]
    \/ dm_state[d] \in {"connecting", "connected", "discovering"}

\* C7: in every reachable state at most one device of the fleet is in a
\* connect phase; the connects of start and the reconnections of the health
\* loop never overlap for two different devices.
C7_OneConnectAtATime ==
    \A d, e \in Devices :
        (InConnectPhase(d) /\ InConnectPhase(e)) => d = e

\* C7, its case: a device is being reconnected while another device is
\* ready and has been silent for more than data_timeout.
C7_Witness ==
    \E d, e \in Devices :
        /\ d # e
        /\ reconnecting[d]
        /\ dm_state[d] = "connecting"
        /\ is_ready[e]
        /\ last_data_age[e] > data_timeout

\* C8: any two reconnections started by the health loop start at least
\* reconnect_global_cooldown apart, whether the earlier one succeeded or
\* failed.
C8_ReconnectsCooldownApart ==
    [][\A d \in Devices :
          (~reconnecting[d] /\ reconnecting'[d])
          => attempt_age >= reconnect_global_cooldown]_vars

\* C9: whenever DeviceModel._cleanup has returned, the state of the device
\* is DISCONNECTED, whatever state it was called in.
C9_CleanupLeavesDisconnected ==
    main_pc \in {"cleaned_fail", "cleaned_disc"}
    => dm_state[cur] = "disconnected"

\* C10: a ready device that has been silent for more than data_timeout
\* eventually has its reconnection started by the health loop (unless its
\* samples resume).
C10_StaleDeviceReconnected ==
    \A d \in Devices :
        (is_ready[d] /\ last_data_age[d] > data_timeout)
        ~> (reconnecting[d] \/ ~is_ready[d] \/ last_data_age[d] <= data_timeout)

\* C11: after a connect or reconnect attempt of a device has failed, the
\* coordinator eventually starts another connect attempt for that device
\* while the system keeps running.
C11_FailedDeviceRetried ==
    \A d \in Devices :
        (running /\ failure_streak[d] > 0) ~> (dm_state[d] = "connecting")

\* C12: when a device has failed max_consecutive_failures attempts in a
\* row (no recovery has run yet, so no cleanup cooldown is active), the
\* coordinator goes on to the OS-level recovery.
C12_FailuresEscalate ==
    \A d \in Devices :
        (running /\ failure_streak[d] >= max_consecutive_failures)
        ~> (main_pc = "os_cleanup")

\* C29: a device is READY only if a complete frame has been parsed since
\* its connect attempt created the consumer task, and it enters READY from
\* the wait for the first sample, before first_data_timeout has run out or
\* with the frame that ends the wait, with its consecutive_failures at 0;
\* in every reachable state READY implies first_data_received.
C29_ReadyOnlyAfterFirstFrame ==
    /\ [](\A d \in Devices : dm_state[d] = "ready" => first_data_received[d])
    /\ [][\A d \in Devices :
             (dm_state[d] # "ready" /\ dm_state'[d] = "ready")
             => /\ d = cur
                /\ dm_state[d] = "discovering"
                /\ data_task[d]
                /\ first_data_received[d]
                /\ last_data_age[d] = 0
                /\ sleep_left \in 0 .. first_data_timeout
                /\ consecutive_failures'[d] = 0
                /\ is_ready'[d]]_vars

\* C29, its case: a device is READY after a reconnection by the health
\* loop, and another one is READY since its connect at startup.
C29_Witness ==
    \E d, e \in Devices :
        /\ d # e
        /\ dm_state[d] = "ready"
        /\ dm_state[e] = "ready"
        /\ running
        /\ last_reconnect_age < reconnect_global_cooldown

\* run evaluates should_trigger_os_cleanup of device d in this step, line
\* 1809: check_and_reconnect has returned, after a reconnection (its
\* finally clause has cleared `reconnecting`) or without one (the device
\* was ready, the global cooldown over, and no reconnection was started).
EvaluatesOsCleanup(d) ==
    \/ reconnecting[d] /\ ~reconnecting'[d]
    \/ /\ main_pc = "health"
       /\ hl_idx = d
       /\ is_ready[d]
       /\ time_since_last_reconnect >= reconnect_global_cooldown
       /\ ~reconnecting'[d]

\* C37: whenever the coordinator evaluates should_trigger_os_cleanup for a
\* supervisor, the supervisor has no device object or the
\* consecutive_failures of its device is at most 1; more precisely, a
\* device object that is present then has a counter of 0, because a failed
\* attempt drops the object that counted it and a new one starts at 0.
C37_CounterNeverAccumulates ==
    [][\A d \in Devices :
          EvaluatesOsCleanup(d)
          => \/ dm_state'[d] = None
             \/ /\ consecutive_failures'[d] <= 1
                /\ consecutive_failures'[d] = 0]_vars

\* C37, its case: the reconnection of a device has just failed and
\* check_and_reconnect has returned to run, which has evaluated
\* should_trigger_os_cleanup for it and gone on to the next device; the
\* other devices are ready.
C37_Witness ==
    \E d \in Devices :
        /\ main_pc = "health"
        /\ hl_idx = d + 1
        /\ dm_state[d] = None
        /\ consecutive_failures[d] = 1
        /\ ~reconnecting[d]
        /\ attempt_age < reconnect_global_cooldown
        /\ last_reconnect_age = reconnect_global_cooldown
        /\ \A e \in Devices \ {d} : is_ready[e] /\ consecutive_failures[e] = 0

(***************************************************************************)
(* Properties of the writer.                                               *)
(***************************************************************************)

\* C14: if metadata.json exists, then for every device of its `devices`
\* field device_<N>.csv exists and holds at least one data row.
C14_MetadataListsSavedFiles ==
    metadata_json # <<>> =>
        \A n \in metadata_json[1].devices :
            n \in csv_files /\ csv_rows[n] # <<>>

\* C27: a row of the event exists in the events table only if its
\* metadata.json was written: after a failed write of metadata.json the
\* writer returns without an insert.
C27_RowOnlyWithMetadata ==
    events_rows # <<>> => metadata_json # <<>>

(***************************************************************************)
(* Properties of the sessions.                                             *)
(***************************************************************************)

\* C15: two distinct recording sessions have distinct event_ids, also when
\* the second is triggered while the save of the first is in progress: the
\* session being recorded never has the event_id of the save in flight.
C15_DistinctEventIds ==
    (recording /\ save_args # <<>>) => event_id # save_args[1].event_id

(***************************************************************************)
(* Properties of shutdown.                                                 *)
(***************************************************************************)

\* C16: when shutdown has completed, the recording that was active has
\* been handed to the writer and no device is left ready or connected,
\* also when shutdown was requested during a reconnection.
C16_ShutdownLeavesNothing ==
    shutdown_pc = "done" =>
        /\ ~recording
        /\ \A d \in Devices : ~is_ready[d] /\ dm_state[d] = None

C18_NoCalibrationWhileRecording == ~(calibrating /\ recording)

(***************************************************************************)
(* Properties of the receive path.                                         *)
(***************************************************************************)

\* C19: raw_data_queue never holds more than its maxsize, and after any
\* sequence of callbacks and pops it holds the most recent slices, in
\* arrival order: a callback on a full queue has dropped the oldest.
C19_QueueHoldsMostRecent ==
    /\ Len(raw_data_queue) <= QueueMaxsize
    /\ \A i \in 1 .. Len(raw_data_queue) :
          raw_data_queue[i].seq = slices_in - Len(raw_data_queue) + i

\* C19, its case: a callback has found the queue full and the queue is
\* full again.
C19_Witness ==
    /\ dropped # {}
    /\ Len(raw_data_queue) = QueueMaxsize

\* C20: when a stream of bytes without a header followed by one frame has
\* been fed whole (no slice lost), exactly one sample has been emitted,
\* decoded from the 18 payload bytes of the frame, and TempBytes is empty.
C20_ResyncEmitsTheFrame ==
    (/\ stream # <<>>
     /\ sent = Len(stream)
     /\ raw_data_queue = <<>>
     /\ dropped = {})
    => /\ samples = <<ProcessData(SubSeq(stream, Len(stream) - FrameLen + 3,
                                         Len(stream)))>>
       /\ TempBytes = <<>>

\* C20, its case: a stream that begins with bytes to skip, the last of them
\* a 0x55, has been fed whole in more than one slice.
C20_Witness ==
    /\ Len(stream) > FrameLen
    /\ stream[Len(stream) - FrameLen] = Header1
    /\ sent = Len(stream)
    /\ raw_data_queue = <<>>
    /\ dropped = {}
    /\ slices_in > 1
    /\ samples # <<>>

\* The samples decoded from FrameLen consecutive bytes of the stream that
\* start with the header.
FramesOfStream ==
    {ProcessData(SubSeq(stream, i + 2, i + FrameLen - 1)) :
        i \in {j \in 1 .. Len(stream) - FrameLen + 1 :
                  stream[j] = Header1 /\ stream[j + 1] = Header2}}

\* C40: every sample handed on is decoded from 20 bytes that were
\* consecutive in the notification stream and start with 0x55 0x61, also
\* when the queue has dropped slices and the frames are split across
\* slices.
C40_SamplesAreFramesOfStream ==
    \A k \in 1 .. Len(samples) : samples[k] \in FramesOfStream

(***************************************************************************)
(* Properties of the decoder.                                              *)
(***************************************************************************)

\* The payload of the frame in `stream`, its i-th word as a signed number,
\* and the deviceData decoded from it.
FramePayload == SubSeq(stream, 3, FrameLen)
SignedWord(i) ==
    LET w == FramePayload[2 * i] * 256 + FramePayload[2 * i - 1]
    IN  IF w >= 32768 THEN w - 65536 ELSE w
Decoded(i) == samples[1][FieldNames[i]]

\* C21 as claimed: each of the nine fields is its little-endian signed word
\* times full scale / 32768, exactly, so that the decoded sample
\* determines the raw words (re-encoding gives them back), and the payload
\* with AccZ word 0x4000 and all else zero decodes to AccZ = 8.000.
C21_DecodeExactAndInvertible ==
    samples # <<>> =>
        /\ \A i \in 1 .. 9 :
              Decoded(i) * ScaleDen(i) = SignedWord(i) * ScaleNum(i)
        /\ \A p \in DecodeInputs :
              ProcessData(p) = samples[1] => p = FramePayload
        /\ FramePayload = PayloadOf(3, 16384, 0) => Decoded(3) = 8000

\* C21 as the code has it: each of the nine fields is its little-endian
\* signed word times full scale / 32768, rounded to three decimals (at
\* most half a thousandth away, a tie going to the even thousandth); the
\* gyro and angle words are determined by the decoded values, the
\* acceleration words only to within two units (a thousandth of a g is about
\* two units of the word); and the payload with AccZ word 0x4000 and all
\* else zero decodes to AccZ = 8.000.
C21_DecodeRoundsToThousandths ==
    samples # <<>> =>
        /\ \A i \in 1 .. 9 :
              LET exact == SignedWord(i) * ScaleNum(i)
                  err == Decoded(i) * ScaleDen(i) - exact
              IN  /\ 2 * Abs(err) <= ScaleDen(i)
                  /\ 2 * Abs(err) = ScaleDen(i) => Decoded(i) % 2 = 0
        /\ \A p \in DecodeInputs :
              ProcessData(p) = samples[1] =>
                 \A i \in 1 .. 9 :
                    LET w == get_sign_int16(WordAt(p, i))
                    IN  IF i <= 3 THEN Abs(w - SignedWord(i)) <= 2
                        ELSE w = SignedWord(i)
        /\ FramePayload = PayloadOf(3, 16384, 0) => Decoded(3) = 8000

\* C21, its case: a payload with a negative acceleration word whose scaled
\* value is not a whole number of thousandths has been decoded.
C21_Witness ==
    /\ samples # <<>>
    /\ SignedWord(1) = -1
    /\ Decoded(1) = 0
    /\ Decoded(9) = -5

(***************************************************************************)
(* Properties of the ring buffer.                                          *)
(***************************************************************************)

\* The last n entries of s, all of s when it has fewer.
LastN(s, n) == IF Len(s) <= n THEN s ELSE SubSeq(s, Len(s) - n + 1, Len(s))

\* What a returned list holds now.
ListItems(l) == IF l.alias THEN cb_buffer ELSE l.items

\* C22: after any sequence of appends the ring buffer holds at most its
\* capacity, its entries are exactly the most recently appended ones in
\* append order, and the list get_all has returned still holds what the
\* buffer held at the time of the call.
C22_RingBufferKeepsNewest ==
    max_size > 0 =>
        /\ Len(cb_buffer) <= max_size
        /\ cb_buffer = LastN(cb_added, max_size)
        /\ cb_returned # <<>> => ListItems(cb_returned[1]) = cb_expected

\* C22, its case: the buffer has overflowed after get_all has returned a
\* full list, and holds other items than the list.
C22_Witness ==
    /\ max_size > 1
    /\ Len(cb_added) > max_size
    /\ cb_returned # <<>>
    /\ Len(cb_expected) = max_size
    /\ cb_expected # cb_buffer

(***************************************************************************)
(* Properties of the telemetry.                                            *)
(***************************************************************************)

\* C23: a failed request (timeout, connection error, answer other than
\* 200) of an uploader ends the call without an exception and without a
\* second request, adds one to upload_failures of that uploader, and
\* changes nothing else: not its upload_count, not the other uploader, not
\* the detector, the event data or the devices.
C23_FailedUploadOnlyCounts ==
    [][\A u \in Uploaders, outcome \in Outcomes \ {"200"} :
          UploadResume(u, outcome)
          => /\ uploader'[u].upload_failures = uploader[u].upload_failures + 1
             /\ uploader'[u].upload_count = uploader[u].upload_count
             /\ uploader'[u].pc = "idle"
             /\ uploader'[u].posts = 1
             /\ uploader'[u].result \in {"None", "False"}
             /\ \A v \in Uploaders \ {u} : uploader'[v] = uploader[v]
             /\ UNCHANGED <<detVars, supVars, histVars, saveVars>>]_vars

\* C23, its case: a request of the HealthUploader has failed while a
\* request of the EventUploader is in flight, after an earlier success.
C23_Witness ==
    /\ uploader["health"].result = "False"
    /\ uploader["health"].upload_failures = 1
    /\ uploader["health"].upload_count = 1
    /\ uploader["event"].pc = "posting"

\* C24: at startup the devices are connected one at a time in ascending
\* order of device number: when the connect of a device begins, the connect
\* of every lower-numbered device has returned, with success or not, none
\* of a higher-numbered device has begun, and at least start_pause
\* seconds have passed since the last successful connect returned.
C24_StartConnectsInOrder ==
    [][FleetStartConnect
       => /\ cur' = start_idx
          /\ \A e \in Devices :
                /\ e < start_idx =>
                      /\ ~InConnectPhase(e)
                      /\ is_ready[e] \/ failure_streak[e] > 0
                /\ e >= start_idx =>
                      /\ dm_state[e] = None
                      /\ ~is_ready[e] /\ failure_streak[e] = 0
          /\ connected_age >= start_pause]_vars

\* C24, its case: the connect of the second device is in progress after
\* the first device has become ready and the pause has passed.
C24_Witness ==
    /\ ~running
    /\ cur = 2
    /\ dm_state[2] = "connecting"
    /\ is_ready[1]
    /\ connected_age = start_pause

(***************************************************************************)
(* Properties of the end-of-recording tasks.                               *)
(***************************************************************************)

\* C25: an _end_recording task only ever ends the session whose stop
\* condition created it: a task that clears `recording` and hands the data
\* over was not left over from an earlier session.
C25_TaskEndsItsOwnSession ==
    [][(EndRecordingTask /\ recording /\ ~recording') => stale_tasks = 0]_vars

\* A call of _save_event_data_sync is handed to the executor in this step.
HandedToWriter ==
    /\ save_args' # <<>>
    /\ save_args' # save_args
    /\ ~save_args'[1].written

\* C38: each recording session is handed to the writer at most once.  A
\* call is handed to the writer only by the step that ends a session, with
\* no other call in flight, and it is the call of that session; the step that
\* ends a session hands exactly that call over; and an _end_recording task
\* that finds `recording` false (the session was handed over by another
\* call) returns without saving anything.
C38_SessionHandedOnce ==
    [][/\ HandedToWriter => /\ recording /\ ~recording'
                             /\ save_args = <<>>
                             /\ save_args'[1].event_id = event_id
                             /\ save_args'[1].trigger_time = trigger_time
       /\ (recording /\ ~recording') => HandedToWriter
       /\ (end_tasks' < end_tasks /\ ~recording)
             => UNCHANGED <<recording, save_args, save_lock, event_data,
                            event_dirs>>]_vars

\* C38, its case: several samples have met the stop condition and each
\* created a task, none of which has run, when the call of shutdown handed
\* the session to the writer: the tasks are still to run their
\* _end_recording.
C38_Witness ==
    /\ save_args # <<>>
    /\ ~recording
    /\ end_tasks > 1
    /\ shutdown_pc = "saving"

(***************************************************************************)
(* Properties of the save lock.                                            *)
(***************************************************************************)

\* C26: _save_lock is held for the handoff only and released before the
\* writer's I/O starts: while a call of _save_event_data_sync is with the
\* executor, waiting to run or running, nobody holds the lock.
C26_LockFreeDuringSave ==
    (save_args # <<>> /\ ~save_args[1].written) => save_lock = "free"

\* C30: in _cleanup the consumer task has been cancelled and has ended
\* before the notifications are stopped and before the link is disconnected:
\* while _cleanup is at its steps 1 to 3 no consumer is alive.  The queue is
\* emptied after the link is released: slices are dropped unparsed by the
\* last step only, and it leaves the queue empty.  No slice is parsed,
\* and so no callback of the detector is called, once _cleanup has closed the
\* link, and no consumer is alive then.
C30_ConsumerEndsBeforeLinkCloses ==
    /\ [](cleanup_pc \in {"stop_notify", "disconnect", "clear"}
            => link_task \in {"none", "done"})
    /\ [](link_closed => link_task \in {"none", "done"})
    /\ [][/\ parsed' # parsed => ~link_closed /\ cleanup_pc \in {"idle", "await_task"}
          /\ (queued' < queued /\ parsed' = parsed /\ sessions' = sessions)
                => cleanup_pc = "clear" /\ cleanup_pc' = "idle"
          /\ (cleanup_pc = "clear" /\ cleanup_pc' = "idle") => queued' = 0]_vars
\* _cleanup has closed the link of a device whose consumer had parsed a
\* slice and ended on its cancellation, and slices that came in the meantime
\* wait to be dropped.
C30_Witness ==
    /\ cleanup_pc = "clear"
    /\ link_closed
    /\ link_task = "done"
    /\ parsed > 0
    /\ queued > 0

\* C31: while ble_operations_paused is set the coordinator starts no health
\* check (with its reconnect) and no connect, and the flag is set only while
\* an OS-level recovery is between its pause and its resume.
C31_PausedFleetIsLeftAlone ==
    /\ [](ble_operations_paused
            => os_pc \in {"pause_wait", "hard_cooldown", "resume_wait"})
    /\ [][(os_checks' # os_checks \/ os_connects' # os_connects)
            => ~ble_operations_paused]_vars
\* The fleet is paused and the coordinator checked a supervisor before.
C31_Witness ==
    /\ ble_operations_paused
    /\ os_pc = "resume_wait"
    /\ os_checks > 1
    /\ os_runs > 1

\* C32: when the finally clause of a recovery that ran its commands is over,
\* whatever their outcome, the flag is cleared and the coordinator goes on
\* to the reset of the counter and the connect of the supervisor.
C32_RecoveryEndsWithConnect ==
    [][(os_pc = "resume_wait" /\ os_pc' # "resume_wait")
         => ~ble_operations_paused' /\ os_pc' = "stabilize"]_vars

\* C33: in a recovery whose commands have run, hciconfig reset was attempted
\* if and only if bluetoothctl remove did not succeed.
C33_HardResetIffSoftFailed ==
    os_pc \in {"hard_cooldown", "resume_wait"}
        => (hard_attempted <=> soft_outcome # "ok")

\* C34: a connect or a check_and_reconnect that is called while the
\* connection lock of the supervisor is held returns at once and changes
\* nothing: no DeviceModel is created, is_ready, the device, the lock and the
\* flag stay as they are, and the call in progress goes on where it was.  The
\* flag reconnecting is set only while a check_and_reconnect is inside its
\* reconnection: once that call has returned, by any path, it is false.
C34_LockedManagerRejectsCalls ==
    /\ [][(mgr_calls' # mgr_calls /\ connection_lock # 0)
            => /\ mgr_rejects' = mgr_rejects + 1
               /\ UNCHANGED <<connection_lock, mgr_reconnecting, mgr_is_ready,
                              mgr_device, devices_made, call_pc>>]_vars
    /\ [](mgr_reconnecting
            => \E c \in Callers :
                  call_pc[c] \in {"rc_disconnect", "rc_sleep", "rc_connect",
                                  "rc_fail_disconnect"})
\* A call was rejected while the other task is inside a reconnection.
C34_Witness ==
    /\ mgr_rejects > 0
    /\ mgr_reconnecting
    /\ \E c \in Callers : connection_lock = c /\ call_pc[c] = "rc_connect"

\* The checks of the window that are not older than window_horizon, and the
\* unhealthy ones among them.
RecentChecks == {i \in 1 .. Len(health_window) :
                    health_window[i].age <= window_horizon}
RecentUnhealthy == {i \in RecentChecks : ~health_window[i].healthy}

\* C35: check_sliding_window_health reports unhealthy if and only if some
\* check of the window is at most 1 s old and at least trigger_percentage
\* percent of those checks are unhealthy; with an empty window or no recent
\* check it reports healthy; the window never holds more than
\* sliding_window_size checks.
C35_WindowVerdict ==
    /\ Len(health_window) <= sliding_window_size
    /\ win_fresh =>
          (~window_healthy <=>
              /\ RecentChecks # {}
              /\ 100 * Cardinality(RecentUnhealthy)
                    >= trigger_percentage * Cardinality(RecentChecks))
\* A full window of which ten checks are recent and seven of them unhealthy
\* has been declared unhealthy.
C35_Witness ==
    /\ win_fresh
    /\ ~window_healthy
    /\ Len(health_window) = sliding_window_size
    /\ Cardinality(RecentChecks) = 10
    /\ Cardinality(RecentUnhealthy) = 7

\* C39: at a poll of check_and_reconnect the verdict of the sliding window
\* equals the verdict of the staleness check of that poll, and the only
\* check of the window within the horizon is the one just appended.
C39_WindowAgreesWithStaleness ==
    (win_fresh /\ since_poll = 0) =>
        /\ window_healthy = poll_is_healthy
        /\ RecentChecks = {Len(health_window)}
\* A poll has found the device stale after polls that found it healthy.
C39_Witness ==
    /\ win_fresh
    /\ since_poll = 0
    /\ ~poll_is_healthy
    /\ ~window_healthy
    /\ Len(health_window) > 2
    /\ \A i \in 1 .. Len(health_window) - 1 : health_window[i].healthy

\* C36: a calibration run that is rejected changes no offset and no stop
\* window and leaves calibrating false, and after it the next calibration is
\* due from retry_delay (300 s) after the start of the rejected run on, not
\* before.
C36_RejectedCalibration ==
    /\ [][(cal_run = "check" /\ cal_run' = "idle")
            => /\ cal_offset' = cal_offset
               /\ cal_window' = cal_window
               /\ cal_rejected']_vars
    /\ []((cal_rejected /\ cal_run = "idle")
            => (CalibrationDue(cal_now)
                  <=> cal_now - cal_current_time >= retry_delay))
\* A run that followed a completed calibration was rejected 299 s ago: no
\* calibration is due yet.
C36_Witness ==
    /\ cal_rejected
    /\ cal_run = "idle"
    /\ cal_now - cal_current_time = retry_delay - 1
    /\ \E n \in Devices : cal_offset[n] # 0
    /\ \E n \in Devices : cal_window[n] # 0
====
